---- MODULE Spec2Model ----
(***************************************************************************)
(* Model of db/create_db.py: the loader that rebuilds the Oceans Institute *)
(* SQLite store from the persons, research-output, award and project JSON  *)
(* exports.  Text is modelled character by character on TLA+ strings       *)
(* (ASCII letters, digits and the punctuation the code branches on); the   *)
(* store is modelled table by table, with the working view of the open     *)
(* connection kept apart from the committed database file.                 *)
(***************************************************************************)
EXTENDS Integers, Sequences, FiniteSets, TLC

VARIABLES
    db,        \* tables as seen through the stage's open connection
    disk,      \* tables of the committed database file
    pc,        \* position of main(): the stage that is running
    files,     \* the JSON input files, one sequence of records per file
    pos,       \* number of records of the current file already processed
    counters,  \* inserted / updated / skipped of the running stage
    err,       \* exception that ended the run, "none" while it is running
    run,       \* which execution of main() this is (1 or 2)
    snapshot,  \* history: the committed store when the first run ended
    last,      \* history: the latest _ensure_member call and what it met
    call       \* a text-normaliser application: function, argument, result

vars == <<db, disk, pc, files, pos, counters, err, run, snapshot, last, call>>

\* SQL NULL / Python None for text columns and for integer columns.
NULL == "<NULL>"
NoInt == 0 - 1

(***************************************************************************)
(* Characters and Python str predicates (ASCII).                           *)
(***************************************************************************)
\* str.lower() and str.upper() on one character: upper-case letter to its
\* lower-case form and back; every other character is left as it is.
LowerOf ==
    [A |-> "a", B |-> "b", C |-> "c", D |-> "d", E |-> "e", F |-> "f",
     G |-> "g", H |-> "h", I |-> "i", J |-> "j", K |-> "k", L |-> "l",
     M |-> "m", N |-> "n", O |-> "o", P |-> "p", Q |-> "q", R |-> "r",
     S |-> "s", T |-> "t", U |-> "u", V |-> "v", W |-> "w", X |-> "x",
     Y |-> "y", Z |-> "z"]

UpperOf ==
    [a |-> "A", b |-> "B", c |-> "C", d |-> "D", e |-> "E", f |-> "F",
     g |-> "G", h |-> "H", i |-> "I", j |-> "J", k |-> "K", l |-> "L",
     m |-> "M", n |-> "N", o |-> "O", p |-> "P", q |-> "Q", r |-> "R",
     s |-> "S", t |-> "T", u |-> "U", v |-> "V", w |-> "W", x |-> "X",
     y |-> "Y", z |-> "Z"]

DigitSet == {"0", "1", "2", "3", "4", "5", "6", "7", "8", "9"}

Ch(s, i) == SubSeq(s, i, i)

InStr(c, s) == \E i \in 1..Len(s) : Ch(s, i) = c

IsLowerCh(c) == c \in DOMAIN UpperOf
IsUpperCh(c) == c \in DOMAIN LowerOf
IsAlphaCh(c) == IsLowerCh(c) \/ IsUpperCh(c)
IsDigitCh(c) == c \in DigitSet
IsSpaceCh(c) == c = " "
\* \w of the re module
IsWordCh(c)  == IsAlphaCh(c) \/ IsDigitCh(c) \/ c = "_"

LowerCh(c) == IF IsUpperCh(c) THEN LowerOf[c] ELSE c
UpperCh(c) == IF IsLowerCh(c) THEN UpperOf[c] ELSE c

RECURSIVE StrLower(_)
StrLower(s) == IF s = "" THEN "" ELSE LowerCh(Ch(s, 1)) \o StrLower(Tail(s))

\* str.casefold(); on ASCII it is lower()
Casefold(s) == StrLower(s)

\* str.isupper(): at least one cased character and no lower-case one
PyIsUpper(s) == /\ \E i \in 1..Len(s) : IsUpperCh(Ch(s, i))
                /\ \A i \in 1..Len(s) : ~IsLowerCh(Ch(s, i))

\* str.isalpha(): non-empty and alphabetic throughout
PyIsAlpha(s) == s # "" /\ \A i \in 1..Len(s) : IsAlphaCh(Ch(s, i))

StartsWith(s, p) == Len(s) >= Len(p) /\ SubSeq(s, 1, Len(p)) = p

\* str.strip() / lstrip() / rstrip() on whitespace
RECURSIVE LStrip(_)
LStrip(s) == IF s # "" /\ IsSpaceCh(Ch(s, 1)) THEN LStrip(Tail(s)) ELSE s

RECURSIVE RStrip(_)
RStrip(s) ==
    IF s # "" /\ IsSpaceCh(Ch(s, Len(s))) THEN RStrip(SubSeq(s, 1, Len(s) - 1)) ELSE s

Strip(s) == RStrip(LStrip(s))

\* re.sub(r"\s+", " ", s)
RECURSIVE CollapseWs(_)
CollapseWs(s) ==
    IF s = "" THEN ""
    ELSE IF IsSpaceCh(Ch(s, 1))
         THEN " " \o CollapseWs(LStrip(s))
         ELSE Ch(s, 1) \o CollapseWs(Tail(s))

\* _norm on a str (None is NULL and gives "")
_norm(val) == IF val = NULL THEN "" ELSE Strip(CollapseWs(val))

\* str.split(sep) for a one-character separator: keeps empty pieces
RECURSIVE SplitOn(_, _, _)
SplitOn(s, sep, cur) ==
    IF s = "" THEN <<cur>>
    ELSE IF Ch(s, 1) = sep
         THEN <<cur>> \o SplitOn(Tail(s), sep, "")
         ELSE SplitOn(Tail(s), sep, cur \o Ch(s, 1))

NonEmpty(seq) == SelectSeq(seq, LAMBDA t : t # "")

\* str.split(): pieces between runs of whitespace, never an empty piece
SplitWs(s) == NonEmpty(SplitOn(s, " ", ""))

\* sep.join(parts)
RECURSIVE Join(_, _)
Join(parts, sep) ==
    IF parts = <<>> THEN ""
    ELSE IF Len(parts) = 1 THEN parts[1]
    ELSE parts[1] \o sep \o Join(Tail(parts), sep)

(***************************************************************************)
(* Expertise title-casing.                                                 *)
(***************************************************************************)
_EXPERTISE_SMALL_WORDS ==
    {"a","an","the","and","or","nor","but","for","so","yet",
     "as","at","by","in","of","on","per","to","via","vs","v",
     "de","la","le","du","da","di","del","von","van","der","den",
     "with","into","onto","over","under","between","among","from",
     "through","toward","towards","without","within","across","against",
     "about","around","after","before","off","up","down","out"}

_is_acronym(token) ==
    IF token = "" THEN FALSE
    ELSE IF PyIsUpper(token) /\ PyIsAlpha(token) /\ Len(token) >= 2 THEN TRUE
    ELSE IF (\E i \in 1..Len(token) : IsDigitCh(Ch(token, i)))
            /\ (\E i \in 1..Len(token) : IsAlphaCh(Ch(token, i))) THEN TRUE
    ELSE FALSE

_titlecase_word(token, is_boundary) ==
    IF token = "" THEN token
    ELSE IF _is_acronym(token) THEN token
    ELSE LET lower == StrLower(token)
         IN IF ~is_boundary /\ lower \in _EXPERTISE_SMALL_WORDS
            THEN lower
            ELSE UpperCh(Ch(lower, 1)) \o Tail(lower)

\* mutation: only a segment at the edge of the phrase counts as a boundary
_titlecase_hyphenated_phrase_edge(token, is_first, is_last) ==
    LET parts == SplitOn(token, "-", "")
        n == Len(parts)
        out == [i \in 1..n |->
                  LET boundary == (i = 1 /\ is_first) \/ (i = n /\ is_last)
                  IN _titlecase_word(parts[i], boundary)]
    IN Join(out, "-")

_titlecase_hyphenated(token, is_first, is_last) ==
    LET parts == SplitOn(token, "-", "")
        n == Len(parts)
        out == [i \in 1..n |->
                  LET boundary == (i = 1 /\ is_first) \/ (i = n /\ is_last)
                  IN _titlecase_word(parts[i], boundary \/ i = 1 \/ i = n)]
    IN Join(out, "-")

titlecase_expertise(phrase0) ==
    LET phrase == _norm(phrase0)
    IN IF phrase = "" THEN phrase
       ELSE LET tokens == SplitWs(phrase)
                n == Len(tokens)
                out == [idx \in 1..n |->
                          LET tok == tokens[idx]
                              is_first == idx = 1
                              is_last == idx = n
                          IN IF InStr("-", tok) /\ Len(tok) > 1
                             THEN _titlecase_hyphenated(tok, is_first, is_last)
                             ELSE _titlecase_word(tok, is_first \/ is_last)]
            IN Join(out, " ")

(***************************************************************************)
(* HTML cleanup and the expertise cleaner.                                 *)
(***************************************************************************)
\* Named character references the model knows: lt, gt, amp, with or
\* without the closing semicolon (html.unescape accepts both).
EntityNames == <<"amp", "lt", "gt">>
EntityChars == <<"&", "<", ">">>

EntityAt(s) ==
    IF s # "" /\ Ch(s, 1) = "&"
       /\ \E k \in 1..3 : StartsWith(Tail(s), EntityNames[k])
    THEN CHOOSE k \in 1..3 : StartsWith(Tail(s), EntityNames[k])
    ELSE 0

\* html.unescape: one left-to-right pass, replaced text is not rescanned
RECURSIVE html_unescape(_)
html_unescape(s) ==
    IF s = "" THEN ""
    ELSE LET k == EntityAt(s)
         IN IF k = 0 THEN Ch(s, 1) \o html_unescape(Tail(s))
            ELSE LET used == 1 + Len(EntityNames[k])
                     semi == IF Len(s) > used /\ Ch(s, used + 1) = ";" THEN 1 ELSE 0
                 IN EntityChars[k] \o html_unescape(SubSeq(s, used + semi + 1, Len(s)))

\* re.sub(r'<[^>]*>', '', s): each "<" up to the first ">" after it
RECURSIVE StripTags(_)
StripTags(s) ==
    IF s = "" THEN ""
    ELSE IF Ch(s, 1) = "<" /\ InStr(">", s)
         THEN LET j == CHOOSE j \in 1..Len(s) :
                          Ch(s, j) = ">" /\ \A i \in 1..(j - 1) : Ch(s, i) # ">"
              IN StripTags(SubSeq(s, j + 1, Len(s)))
         ELSE Ch(s, 1) \o StripTags(Tail(s))

IsArtifactCh(c) == c = ">" \/ c = "<" \/ IsSpaceCh(c)

\* re.sub(r'^[><\s]*', '', s)
RECURSIVE StripLeadArtifacts(_)
StripLeadArtifacts(s) ==
    IF s # "" /\ IsArtifactCh(Ch(s, 1)) THEN StripLeadArtifacts(Tail(s)) ELSE s

\* re.sub(r'[><\s]*$', '', s)
RECURSIVE StripTrailArtifacts(_)
StripTrailArtifacts(s) ==
    IF s # "" /\ IsArtifactCh(Ch(s, Len(s)))
    THEN StripTrailArtifacts(SubSeq(s, 1, Len(s) - 1)) ELSE s

RECURSIVE LeadDigits(_)
LeadDigits(s) == IF s # "" /\ IsDigitCh(Ch(s, 1)) THEN 1 + LeadDigits(Tail(s)) ELSE 0

\* re.sub(r'^\d+\.\s*', '', s)
StripLeadNumber(s) ==
    LET d == LeadDigits(s)
    IN IF d >= 1 /\ Len(s) > d /\ Ch(s, d + 1) = "."
       THEN LStrip(SubSeq(s, d + 2, Len(s)))
       ELSE s

\* re.match(r'^[\W\s]*$', s)
NoWordChar(s) == \A i \in 1..Len(s) : ~IsWordCh(Ch(s, i))

IsUrlPrefix(s) == StartsWith(StrLower(s), "http") \/ StartsWith(StrLower(s), "www.")

\* clean_expertise: the cleaned phrase, or NULL for None
clean_expertise(raw0) ==
    LET raw1 == html_unescape(raw0)
        raw2 == StripTags(raw1)
        f0 == Strip(CollapseWs(raw2))
        f1 == Strip(StripLeadArtifacts(f0))
        f2 == Strip(StripLeadNumber(f1))
        field == Strip(StripTrailArtifacts(f2))
    IN IF IsUrlPrefix(field) \/ Len(field) < 3 \/ NoWordChar(field)
       THEN NULL
       ELSE field

\* \band\b at position i of s, ignoring case
AndAt(s, i) ==
    /\ i + 2 <= Len(s)
    /\ StrLower(SubSeq(s, i, i + 2)) = "and"
    /\ (i = 1 \/ ~IsWordCh(Ch(s, i - 1)))
    /\ (i + 2 = Len(s) \/ ~IsWordCh(Ch(s, i + 3)))

\* re.split(r"[;,/]|\band\b", s, flags=re.I)
RECURSIVE SplitInterests(_, _, _)
SplitInterests(s, i, cur) ==
    IF i > Len(s) THEN <<cur>>
    ELSE IF Ch(s, i) \in {";", ",", "/"}
         THEN <<cur>> \o SplitInterests(s, i + 1, "")
    ELSE IF AndAt(s, i)
         THEN <<cur>> \o SplitInterests(s, i + 3, "")
    ELSE SplitInterests(s, i + 1, cur \o Ch(s, i))

(***************************************************************************)
(* The store.  OIMembers and OIResearchOutputsCollaborators keep their     *)
(* rows in rowid (insertion) order because later passes iterate over       *)
(* them; the other tables are sets of rows.                                *)
(***************************************************************************)
EmptyStore ==
    [OIMembers |-> <<>>,
     OIExpertise |-> {},
     OIResearchOutputs |-> {},
     OIResearchOutputTags |-> {},
     OIResearchOutputsCollaborators |-> <<>>,
     OIResearchGrants |-> {},
     OIResearchGrantsFundingSources |-> {},
     OIResearchOutputsToGrants |-> {},
     OIMembersMetaInfo |-> {}]

EmptyFiles ==
    [persons |-> <<>>, outputs |-> <<>>, awards |-> <<>>, projects |-> <<>>, bad |-> {}]

ZeroCounters == [inserted |-> 0, updated |-> 0, skipped |-> 0]

NoCall == [fn |-> "none", arg |-> "", ret |-> "", done |-> FALSE]

NoArgs ==
    [name |-> "", member_uuid |-> NULL, email |-> NULL, education |-> NULL,
     bio |-> NULL, phone |-> NULL, photo_url |-> NULL, profile_url |-> NULL,
     title |-> NULL, position |-> NULL, main_research_area |-> NULL]

NoEnsure ==
    [hit |-> "none", exc |-> "none", ret |-> NULL, member_uuid |-> NULL,
     args |-> NoArgs, pre |-> EmptyStore, prev |-> "none", prevArgs |-> NoArgs,
     prevRet |-> NULL]

(***************************************************************************)
(* Identity resolver.                                                      *)
(***************************************************************************)
\* uuid.uuid5(NAMESPACE_URL, base): a hash of base, modelled as an injective
\* tag of it
uuid5(base) == "uuid5(" \o base \o ")"

_deterministic_member_uuid(name) == uuid5("member:" \o Casefold(name))

\* COALESCE(x, y)
Coalesce(x, y) == IF x # NULL THEN x ELSE y

HasUuid(members, u) == \E i \in 1..Len(members) : members[i].uuid = u
HasName(members, n) == \E i \in 1..Len(members) : members[i].name = n

\* OIMembers: uuid is the primary key and name is UNIQUE
MemberInsertConflicts(members, row) ==
    HasUuid(members, row.uuid) \/ HasName(members, row.name)

\* UPDATE OIMembers SET uuid = ? WHERE name = ?   (params: new uuid, name).
\* The connections of this program never switch foreign-key support on, so
\* no ON UPDATE action reaches the referencing tables.
UpdateUuidByName(members, params) ==
    LET hits == {i \in 1..Len(members) : members[i].name = params[2]}
    IN IF \E i \in hits : \E j \in 1..Len(members) :
              j # i /\ members[j].uuid = params[1]
       THEN [members |-> members, exc |-> "IntegrityError"]
       ELSE [members |-> [i \in 1..Len(members) |->
                             IF i \in hits THEN [members[i] EXCEPT !.uuid = params[1]]
                             ELSE members[i]],
             exc |-> "none"]

\* The name-hit merge statement: six COALESCE placeholders and the WHERE name
\* placeholder, seven in all; sqlite3 raises ProgrammingError when the
\* number of supplied values differs.
UpdateFieldsByName(members, params) ==
    IF Len(params) # 7
    THEN [members |-> members, exc |-> "ProgrammingError"]
    ELSE [members |-> [i \in 1..Len(members) |->
                          IF members[i].name = params[7]
                          THEN [members[i] EXCEPT
                                  !.email = Coalesce(params[1], @),
                                  !.education = Coalesce(params[2], @),
                                  !.bio = Coalesce(params[3], @),
                                  !.phone = Coalesce(params[4], @),
                                  !.photo_url = Coalesce(params[5], @),
                                  !.profile_url = Coalesce(params[6], @)]
                          ELSE members[i]],
          exc |-> "none"]

\* The uuid-hit merge statement: name, six COALESCE placeholders and the
\* WHERE uuid placeholder, eight in all, bound by position.
UpdateNameFieldsByUuid(members, params) ==
    IF Len(params) # 8
    THEN [members |-> members, exc |-> "ProgrammingError"]
    ELSE LET hits == {i \in 1..Len(members) : members[i].uuid = params[8]}
         IN IF \E i \in hits : \E j \in 1..Len(members) :
                   j # i /\ members[j].name = params[1]
            THEN [members |-> members, exc |-> "IntegrityError"]
            ELSE [members |-> [i \in 1..Len(members) |->
                                  IF i \in hits
                                  THEN [members[i] EXCEPT
                                          !.name = params[1],
                                          !.email = Coalesce(params[2], @),
                                          !.education = Coalesce(params[3], @),
                                          !.bio = Coalesce(params[4], @),
                                          !.phone = Coalesce(params[5], @),
                                          !.photo_url = Coalesce(params[6], @),
                                          !.profile_url = Coalesce(params[7], @)]
                                  ELSE members[i]],
                  exc |-> "none"]

\* the values handed to the name-hit merge statement
NameHitParams(a) == <<a.email, a.education, a.bio, a.phone, a.photo_url, a.name>>

\* the values handed to the uuid-hit merge statement
UuidHitParams(a, member_uuid) ==
    <<a.name, a.email, a.education, a.bio, a.phone, a.photo_url, member_uuid, a.profile_url>>

\* _ensure_member(conn, name, member_uuid, email, ..., main_research_area):
\* the OIMembers table afterwards, the value returned and the exception
\* raised, with the branch taken ("insert", "name" or "uuid")
_ensure_member(members, a) ==
    LET member_uuid == IF a.member_uuid = NULL \/ a.member_uuid = ""
                       THEN _deterministic_member_uuid(a.name)
                       ELSE a.member_uuid
        row == [uuid |-> member_uuid, name |-> a.name, email |-> a.email,
                education |-> a.education, bio |-> a.bio, phone |-> a.phone,
                photo_url |-> a.photo_url, profile_url |-> a.profile_url,
                position |-> a.position, first_title |-> a.title,
                main_research_area |-> a.main_research_area]
    IN IF ~MemberInsertConflicts(members, row)
       THEN [members |-> Append(members, row), ret |-> member_uuid,
             exc |-> "none", hit |-> "insert", member_uuid |-> member_uuid]
       ELSE IF HasName(members, a.name)
       THEN LET i == CHOOSE i \in 1..Len(members) : members[i].name = a.name
                existing_uuid == members[i].uuid
                rekey == IF existing_uuid # member_uuid
                         THEN UpdateUuidByName(members, <<member_uuid, a.name>>)
                         ELSE [members |-> members, exc |-> "none"]
                merge == UpdateFieldsByName(rekey.members, NameHitParams(a))
            IN IF rekey.exc # "none"
               THEN [members |-> rekey.members, ret |-> NULL,
                     exc |-> rekey.exc, hit |-> "name", member_uuid |-> member_uuid]
               ELSE IF merge.exc # "none"
               THEN [members |-> merge.members, ret |-> NULL,
                     exc |-> merge.exc, hit |-> "name", member_uuid |-> member_uuid]
               ELSE [members |-> merge.members, ret |-> member_uuid,
                     exc |-> "none", hit |-> "name", member_uuid |-> member_uuid]
       ELSE LET merge == UpdateNameFieldsByUuid(members, UuidHitParams(a, member_uuid))
            IN IF merge.exc # "none"
               THEN [members |-> merge.members, ret |-> NULL,
                     exc |-> merge.exc, hit |-> "uuid", member_uuid |-> member_uuid]
               ELSE [members |-> merge.members, ret |-> member_uuid,
                     exc |-> "none", hit |-> "uuid", member_uuid |-> member_uuid]

(***************************************************************************)
(* Persons stage.                                                          *)
(***************************************************************************)
\* f"{first_name} {last_name}".strip()
PersonName(person) ==
    Strip(_norm(person.firstName) \o " " \o _norm(person.lastName))

PersonArgs(person) ==
    [name |-> PersonName(person), member_uuid |-> person.uuid,
     email |-> person.email, education |-> person.education, bio |-> person.bio,
     phone |-> person.phone, photo_url |-> person.photo_url,
     profile_url |-> person.profile_url, title |-> person.title,
     position |-> person.position, main_research_area |-> NULL]

\* the pieces of one researchinterests text, before cleaning
InterestParts(interests_raw) ==
    SplitInterests(_norm(StripTags(html_unescape(interests_raw))), 1, "")

RECURSIVE Flatten(_)
Flatten(seqs) == IF seqs = <<>> THEN <<>> ELSE Head(seqs) \o Flatten(Tail(seqs))

\* raw phrases of one person in the order the loops visit them: every
\* researchinterests text split into parts, then the keyword-group terms
PersonRawPhrases(person) ==
    Flatten([i \in 1..Len(person.interests) |-> InterestParts(person.interests[i])])
    \o person.keywords

\* OIExpertise is unique per (researcher_uuid, casefold(field))
ExpertiseConflicts(table, row) ==
    \E r \in table : /\ r.researcher_uuid = row.researcher_uuid
                     /\ Casefold(r.field) = Casefold(row.field)

\* INSERT OR REPLACE in place of INSERT OR IGNORE: the row in conflict is
\* deleted and the new form stored
InsertOrIgnoreExpertise_replace(table, row) ==
    {r \in table : ~(r.researcher_uuid = row.researcher_uuid
                        /\ Casefold(r.field) = Casefold(row.field))} \cup {row}

\* INSERT OR IGNORE INTO OIExpertise (researcher_uuid, field)
InsertOrIgnoreExpertise(table, row) ==
    IF ExpertiseConflicts(table, row) THEN table ELSE table \cup {row}

\* the two expertise loops of one person, sharing the `seen` set
RECURSIVE InsertExpertise(_, _, _, _)
InsertExpertise(table, ensured_uuid, raws, seen) ==
    IF raws = <<>> THEN table
    ELSE LET cleaned == clean_expertise(Head(raws))
         IN IF cleaned = NULL \/ cleaned = ""
            THEN InsertExpertise(table, ensured_uuid, Tail(raws), seen)
            ELSE LET field == titlecase_expertise(cleaned)
                     key == Casefold(field)
                 IN IF key \in seen
                    THEN InsertExpertise(table, ensured_uuid, Tail(raws), seen)
                    ELSE InsertExpertise(
                             InsertOrIgnoreExpertise(table,
                                 [researcher_uuid |-> ensured_uuid, field |-> field]),
                             ensured_uuid, Tail(raws), seen \cup {key})

(***************************************************************************)
(* main(): the stages in order.  A stage reads its file record by record;  *)
(* the first run fixes the content of each file as it reads it and a       *)
(* second run reads the same content again.                                *)
(***************************************************************************)
\* records read from the four input files so far
RecordsRead ==
    Len(files.persons) + Len(files.outputs) + Len(files.awards) + Len(files.projects)

NextRecords(file, pool, max) ==
    IF pos < Len(file) THEN {file[pos + 1]}
    ELSE IF run = 1 /\ RecordsRead < max THEN pool
    ELSE {}

Record(file, rec) == IF pos < Len(file) THEN file ELSE Append(file, rec)

Readable(stage) == stage \notin files.bad

\* the loop over the file has come to its end
LoopDone(stage) == Readable(stage) /\ pos = Len(files[stage])

Abort(exc) == pc' = "aborted" /\ err' = exc

\* a `continue` that leaves the record uncounted
CountSkipped_silent == counters' = counters

\* skipped += 1; continue
CountSkipped == counters' = [counters EXCEPT !.skipped = @ + 1]

\* the connection of a stage opened with isolation_level=None: every
\* statement is committed as it executes
Uncommitted_autocommit == disk' = db'

\* the writes of a loop body stay in the open transaction of the stage's
\* connection: the only conn.commit() of a stage follows its loop
Uncommitted == disk' = disk

\* check_and_create_db without the os.remove: the script runs on the file
\* as it is and the rows it holds stay
CheckAndCreateDb_keep ==
    /\ pc = "schema"
    /\ \/ /\ Readable("schema")
          /\ pc' = "persons"
          /\ UNCHANGED <<err, files>>
       \/ /\ run = 1 \/ ~Readable("schema")
          /\ files' = [files EXCEPT !.bad = @ \cup {"schema"}]
          /\ Abort("FileNotFoundError")
    /\ disk' = disk
    /\ db' = disk
    /\ pos' = 0
    /\ counters' = ZeroCounters
    /\ UNCHANGED <<run, snapshot, last, call>>

\* os.remove, sqlite3.connect, executescript(create_db.sql)
CheckAndCreateDb ==
    /\ pc = "schema"
    /\ \/ /\ Readable("schema")
          /\ pc' = "persons"
          /\ UNCHANGED <<err, files>>
       \/ /\ run = 1 \/ ~Readable("schema")
          /\ files' = [files EXCEPT !.bad = @ \cup {"schema"}]
          /\ Abort("FileNotFoundError")
    /\ disk' = EmptyStore
    /\ db' = EmptyStore
    /\ pos' = 0
    /\ counters' = ZeroCounters
    /\ UNCHANGED <<run, snapshot, last, call>>

\* a stage that catches the error of its unreadable input and returns False,
\* after which main() calls the next stage
InputUnreadable_continue ==
    /\ pc \in {"persons", "outputs", "awards", "projects"}
    /\ pos = 0 /\ Len(files[pc]) = 0
    /\ run = 1 \/ ~Readable(pc)
    /\ files' = [files EXCEPT !.bad = @ \cup {pc}]
    /\ pc' = CASE pc = "persons" -> "outputs" [] pc = "outputs" -> "awards"
                [] pc = "awards" -> "projects" [] OTHER -> "external"
    /\ err' = "InputError"
    /\ UNCHANGED <<db, disk, pos, counters, run, snapshot, last, call>>


\* open(json_file) or json.load raises at the head of a stage
InputUnreadable ==
    /\ pc \in {"persons", "outputs", "awards", "projects"}
    /\ pos = 0 /\ Len(files[pc]) = 0
    /\ run = 1 \/ ~Readable(pc)
    /\ files' = [files EXCEPT !.bad = @ \cup {pc}]
    /\ Abort("InputError")
    /\ UNCHANGED <<db, disk, pos, counters, run, snapshot, last, call>>

\* one iteration of the loop of fill_db_from_json_persons
PersonStep(pool, max) ==
    /\ pc = "persons"
    /\ Readable("persons")
    /\ \E person \in NextRecords(files.persons, pool, max) :
          LET name == PersonName(person)
              r == _ensure_member(db.OIMembers, PersonArgs(person))
          IN /\ files' = [files EXCEPT !.persons = Record(@, person)]
             /\ pos' = pos + 1
             /\ IF name = ""
                THEN UNCHANGED <<db, pc, err, last>>
                ELSE /\ last' = [hit |-> r.hit, exc |-> r.exc, ret |-> r.ret,
                                 member_uuid |-> r.member_uuid,
                                 args |-> PersonArgs(person), pre |-> db,
                                 prev |-> last.hit, prevArgs |-> last.args,
                                 prevRet |-> last.ret]
                     /\ IF r.exc # "none"
                        THEN /\ db' = [db EXCEPT !.OIMembers = r.members]
                             /\ Abort(r.exc)
                        ELSE /\ db' = [db EXCEPT
                                  !.OIMembers = r.members,
                                  !.OIExpertise =
                                      InsertExpertise(@, r.ret, PersonRawPhrases(person), {})]
                             /\ UNCHANGED <<pc, err>>
    /\ Uncommitted
    /\ UNCHANGED <<counters, run, snapshot, call>>

\* conn.commit(); conn.close(); return True
PersonsFinish ==
    /\ pc = "persons"
    /\ LoopDone("persons")
    /\ disk' = db
    /\ pc' = "outputs"
    /\ pos' = 0
    /\ counters' = ZeroCounters
    /\ UNCHANGED <<db, files, err, run, snapshot, last, call>>

(***************************************************************************)
(* Research-output stage.  A record carries the values the code reads      *)
(* from the JSON item; `quirks` names the malformed shapes the item has.   *)
(***************************************************************************)
\* the organisation the stages filter on
TargetOrg == "b3a31a78-ac4b-46f0-91e0-89423a64aea6"

\* an integer key that is missing from the item (get() then gives its default)
AbsentInt == 0 - 2

CoalesceInt(x, y) == IF x # NoInt THEN x ELSE y

\* item.get(key, default) for an integer key
GetInt(v, default) == IF v = AbsentInt THEN default ELSE v

\* filter_by_organization(item, org_uuid)
filter_by_organization(item, org_uuid) ==
    IF \E i \in 1..Len(item.organisationalUnits) : item.organisationalUnits[i] = org_uuid
    THEN TRUE
    ELSE item.managingOrganisationalUnit = org_uuid

\* _title_from_item
_title_from_item(item) ==
    LET t == IF item.title = NULL THEN "" ELSE item.title
    IN Strip(StripTags(html_unescape(t)))

\* _publisher_from_item, for a publisher given as a string
_publisher_from_item(item) ==
    IF item.publisher = NULL \/ item.publisher = "" THEN NULL
    ELSE LET t == _norm(html_unescape(item.publisher))
         IN IF t = "" THEN NULL ELSE t

\* start of the last occurrence of sub in s, 0 when there is none
RECURSIVE LastIndexOf(_, _, _)
LastIndexOf(s, sub, i) ==
    IF i < 1 THEN 0
    ELSE IF SubSeq(s, i, i + Len(sub) - 1) = sub THEN i
    ELSE LastIndexOf(s, sub, i - 1)

PublicPrefix == "https://research-repository.uwa.edu.au/en/publications/"

\* the public link derived from info.portalUrl
LinkToPaper(portal_url) ==
    IF portal_url = NULL \/ portal_url = "" THEN NULL
    ELSE LET k == LastIndexOf(portal_url, "publications/", Len(portal_url) - 12)
         IN IF k = 0 THEN NULL
            ELSE LET uuid_part == SubSeq(portal_url, k + 13, Len(portal_url))
                 IN IF uuid_part = "" THEN NULL ELSE PublicPrefix \o uuid_part

\* the row the INSERT of one item offers
OutputRow(item) ==
    [uuid |-> item.uuid,
     publisher_name |-> _publisher_from_item(item),
     name |-> _title_from_item(item),
     abstract |-> item.abstract,
     num_citations |-> GetInt(item.totalScopusCitations, 0),
     num_authors |-> GetInt(item.totalNumberOfAuthors, 0),
     publication_year |-> GetInt(item.year, 0),
     link_to_paper |-> LinkToPaper(item.portalUrl),
     journal_name |-> item.journal]

\* ON CONFLICT(uuid) DO UPDATE SET col = COALESCE(excluded.col, col)
MergeOutput(old, new) ==
    [uuid |-> old.uuid,
     publisher_name |-> Coalesce(new.publisher_name, old.publisher_name),
     name |-> Coalesce(new.name, old.name),
     abstract |-> Coalesce(new.abstract, old.abstract),
     num_citations |-> CoalesceInt(new.num_citations, old.num_citations),
     num_authors |-> CoalesceInt(new.num_authors, old.num_authors),
     publication_year |-> CoalesceInt(new.publication_year, old.publication_year),
     link_to_paper |-> Coalesce(new.link_to_paper, old.link_to_paper),
     journal_name |-> Coalesce(new.journal_name, old.journal_name)]

\* INSERT INTO OIResearchOutputs ... ON CONFLICT(uuid) DO UPDATE.  uuid is
\* the only key of the table, so the statement never raises IntegrityError
\* and the except branch of the code is not taken.
UpsertOutput(table, row) ==
    IF \E r \in table : r.uuid = row.uuid
    THEN {IF r.uuid = row.uuid THEN MergeOutput(r, row) ELSE r : r \in table}
    ELSE table \cup {row}

\* keywords of one container: its free keywords if it has any, else the
\* texts of its structured keyword
ContainerKeywords(container) ==
    IF container.freeKeywords # <<>> THEN container.freeKeywords
    ELSE container.structuredKeyword

\* (ro_uuid, type_name, name) tuples of one keyword group, in order
GroupTags(ro_uuid, group) ==
    LET raws == Flatten([i \in 1..Len(group.keywordContainers) |->
                            ContainerKeywords(group.keywordContainers[i])])
        kws == SelectSeq([i \in 1..Len(raws) |-> _norm(raws[i])], LAMBDA kw : kw # "")
    IN [i \in 1..Len(kws) |->
           [ro_uuid |-> ro_uuid, type_name |-> group.type_name,
            name |-> titlecase_expertise(kws[i])]]

ItemTags(item) ==
    Flatten([i \in 1..Len(item.keywordGroups) |-> GroupTags(item.uuid, item.keywordGroups[i])])

SeqToSet(seq) == {seq[i] : i \in 1..Len(seq)}

\* INSERT OR IGNORE INTO OIResearchOutputTags, unique per triple
InsertOrIgnoreTags(table, rows) == table \cup SeqToSet(rows)

\* the identity of an association: the person, else the external person
AssocUuid(assoc) ==
    IF assoc.person # NULL /\ assoc.person # "" THEN assoc.person ELSE assoc.externalPerson

\* a plain INSERT into a collaborator table without a unique key: the row
\* is added again
InsertOrIgnoreCollaborator_again(table, row) == Append(table, row)

\* INSERT OR IGNORE INTO OIResearchOutputsCollaborators, unique per triple
InsertOrIgnoreCollaborator(table, row) ==
    IF \E i \in 1..Len(table) : table[i] = row THEN table ELSE Append(table, row)

\* the collaborator rows written for the first association only
InsertCollaborators_first(table, ro_uuid, assocs) ==
    IF assocs = <<>> THEN [table |-> table, exc |-> "none"]
    ELSE LET assoc == Head(assocs)
             p_uuid == AssocUuid(assoc)
         IN IF "roleTextEmpty" \in assoc.quirks
            THEN [table |-> table, exc |-> "IndexError"]
            ELSE IF p_uuid = NULL \/ p_uuid = "" \/ assoc.role = NULL \/ assoc.role = ""
            THEN [table |-> table, exc |-> "none"]
            ELSE [table |-> InsertOrIgnoreCollaborator(table,
                               [ro_uuid |-> ro_uuid, researcher_uuid |-> p_uuid,
                                role |-> assoc.role]),
                  exc |-> "none"]

\* the loop over personAssociations: the table afterwards, and whether an
\* association with an empty role text list raised IndexError
RECURSIVE InsertCollaborators(_, _, _)
InsertCollaborators(table, ro_uuid, assocs) ==
    IF assocs = <<>> THEN [table |-> table, exc |-> "none"]
    ELSE LET assoc == Head(assocs)
             p_uuid == AssocUuid(assoc)
         IN IF "roleTextEmpty" \in assoc.quirks
            THEN [table |-> table, exc |-> "IndexError"]
            ELSE IF p_uuid = NULL \/ p_uuid = "" \/ assoc.role = NULL \/ assoc.role = ""
            THEN InsertCollaborators(table, ro_uuid, Tail(assocs))
            ELSE InsertCollaborators(
                     InsertOrIgnoreCollaborator(table,
                         [ro_uuid |-> ro_uuid, researcher_uuid |-> p_uuid,
                          role |-> assoc.role]),
                     ro_uuid, Tail(assocs))

\* one iteration of the loop of fill_db_from_json_research_outputs
OutputStep(pool, max) ==
    /\ pc = "outputs"
    /\ Readable("outputs")
    /\ \E item \in NextRecords(files.outputs, pool, max) :
          LET title == _title_from_item(item)
              collab == InsertCollaborators(db.OIResearchOutputsCollaborators,
                                            item.uuid, item.personAssociations)
              stored == [db EXCEPT
                           !.OIResearchOutputs = UpsertOutput(@, OutputRow(item)),
                           !.OIResearchOutputTags = InsertOrIgnoreTags(@, ItemTags(item))]
          IN /\ files' = [files EXCEPT !.outputs = Record(@, item)]
             /\ pos' = pos + 1
             /\ IF "orgUnitsNull" \in item.quirks
                THEN \* for org in None
                     /\ Abort("TypeError")
                     /\ UNCHANGED <<db, counters>>
                ELSE IF ~filter_by_organization(item, TargetOrg)
                THEN /\ CountSkipped
                     /\ UNCHANGED <<db, pc, err>>
                ELSE IF item.uuid = NULL \/ item.uuid = "" \/ title = ""
                THEN /\ CountSkipped
                     /\ UNCHANGED <<db, pc, err>>
                ELSE IF "abstractTextEmpty" \in item.quirks
                        \/ "publicationStatusesEmpty" \in item.quirks
                THEN \* abstract_text_obj[0] / publisher_obj[0] on an empty list
                     /\ Abort("IndexError")
                     /\ UNCHANGED <<db, counters>>
                ELSE /\ counters' = [counters EXCEPT !.updated = @ + 1]
                     /\ db' = [stored EXCEPT !.OIResearchOutputsCollaborators = collab.table]
                     /\ IF collab.exc # "none"
                        THEN Abort(collab.exc)
                        ELSE UNCHANGED <<pc, err>>
    /\ Uncommitted
    /\ UNCHANGED <<run, snapshot, last, call>>

\* conn.commit(); conn.close(); return True
OutputsFinish ==
    /\ pc = "outputs"
    /\ LoopDone("outputs")
    /\ disk' = db
    /\ pc' = "awards"
    /\ pos' = 0
    /\ counters' = ZeroCounters
    /\ UNCHANGED <<db, files, err, run, snapshot, last, call>>

(***************************************************************************)
(* Award stage.                                                            *)
(***************************************************************************)
\* an awardedAmount that float() cannot convert
BadAmount == 0 - 3

IsDigits(s) == s # "" /\ \A i \in 1..Len(s) : IsDigitCh(Ch(s, i))

\* text before the first "+"
BeforePlus(s) == SplitOn(s, "+", "")[1]

\* _parse_iso_date: the calendar date of an ISO date-time, None when the
\* value is missing or does not start with YYYY-MM-DD followed by a time
_parse_iso_date(val) ==
    IF val = NULL \/ val = "" THEN NULL
    ELSE LET t == BeforePlus(val)
         IN IF /\ Len(t) >= 10
               /\ IsDigits(SubSeq(t, 1, 4)) /\ Ch(t, 5) = "-"
               /\ IsDigits(SubSeq(t, 6, 7)) /\ Ch(t, 8) = "-"
               /\ IsDigits(SubSeq(t, 9, 10))
               /\ (Len(t) = 10 \/ Ch(t, 11) = "T")
            THEN SubSeq(t, 1, 10)
            ELSE NULL

\* step 4 of the award loop: the (fund_source, funding_amount) list; every
\* entry carries float(fund_obj[0]["awardedAmount"]), and any exception
\* empties the list
AwardFunders(item) ==
    LET fund_obj == item.fundings
    IN IF fund_obj = <<>> THEN <<>>
       ELSE IF fund_obj[1].awardedAmount \in {BadAmount, NoInt} THEN <<>>
       ELSE LET funding_amount == GetInt(fund_obj[1].awardedAmount, 0)
            IN [i \in 1..Len(fund_obj) |-> <<fund_obj[i].funder, funding_amount>>]

\* index of the first entry of the list sorted by amount, largest first
\* (sorted is stable, also with reverse=True)
TopIndex(funders) ==
    CHOOSE i \in 1..Len(funders) :
        /\ \A j \in 1..Len(funders) : funders[j][2] <= funders[i][2]
        /\ \A j \in 1..(i - 1) : funders[j][2] < funders[i][2]

TopFunder(funders) ==
    IF funders = <<>> THEN <<NULL, 0>> ELSE funders[TopIndex(funders)]

GrantRow(item) ==
    LET top_funder == TopFunder(AwardFunders(item))
    IN [uuid |-> item.uuid, grant_name |-> item.title,
        start_date |-> _parse_iso_date(item.startDate),
        end_date |-> _parse_iso_date(item.endDate),
        total_funding |-> top_funder[2],
        top_funding_source_name |-> top_funder[1],
        school |-> item.school]

MergeGrant(old, new) ==
    [uuid |-> old.uuid,
     grant_name |-> Coalesce(new.grant_name, old.grant_name),
     start_date |-> Coalesce(new.start_date, old.start_date),
     end_date |-> Coalesce(new.end_date, old.end_date),
     total_funding |-> CoalesceInt(new.total_funding, old.total_funding),
     top_funding_source_name |->
         Coalesce(new.top_funding_source_name, old.top_funding_source_name),
     school |-> Coalesce(new.school, old.school)]

\* INSERT INTO OIResearchGrants ... ON CONFLICT(uuid) DO UPDATE
UpsertGrant(table, row) ==
    IF \E r \in table : r.uuid = row.uuid
    THEN {IF r.uuid = row.uuid THEN MergeGrant(r, row) ELSE r : r \in table}
    ELSE table \cup {row}

\* INSERT OR IGNORE INTO OIResearchGrantsFundingSources, one statement per
\* funder, unique per (grant_uuid, funding_source_name)
RECURSIVE InsertFundingSources(_, _, _)
InsertFundingSources(table, award_uuid, funders) ==
    IF funders = <<>> THEN table
    ELSE LET funder == Head(funders)
             row == [grant_uuid |-> award_uuid, funding_source_name |-> funder[1],
                     amount |-> funder[2]]
             taken == \E r \in table : /\ r.grant_uuid = row.grant_uuid
                                       /\ r.funding_source_name = row.funding_source_name
         IN InsertFundingSources(IF taken THEN table ELSE table \cup {row},
                                 award_uuid, Tail(funders))

\* the two skips of the award loop with the test of the school left out
AwardSkipped_noschool(item) ==
    item.uuid = NULL \/ item.uuid = "" \/ item.title = NULL \/ item.title = ""

\* `if not award_uuid or not title: ... continue` and
\* `if not school: ... continue`
AwardSkipped(item) ==
    \/ item.uuid = NULL \/ item.uuid = "" \/ item.title = NULL \/ item.title = ""
    \/ item.school = NULL \/ item.school = ""

\* one iteration of the loop of fill_db_from_json_awards
AwardStep(pool, max) ==
    /\ pc = "awards"
    /\ Readable("awards")
    /\ \E item \in NextRecords(files.awards, pool, max) :
          /\ files' = [files EXCEPT !.awards = Record(@, item)]
          /\ pos' = pos + 1
          /\ IF AwardSkipped(item)
             THEN /\ CountSkipped
                  /\ UNCHANGED db
             ELSE /\ counters' = [counters EXCEPT !.updated = @ + 1]
                  /\ db' = [db EXCEPT
                        !.OIResearchGrants = UpsertGrant(@, GrantRow(item)),
                        !.OIResearchGrantsFundingSources =
                            InsertFundingSources(@, item.uuid, AwardFunders(item))]
    /\ Uncommitted
    /\ UNCHANGED <<pc, err, run, snapshot, last, call>>

\* conn.commit(); conn.close(); return True
AwardsFinish ==
    /\ pc = "awards"
    /\ LoopDone("awards")
    /\ disk' = db
    /\ pc' = "projects"
    /\ pos' = 0
    /\ counters' = ZeroCounters
    /\ UNCHANGED <<db, files, err, run, snapshot, last, call>>

(***************************************************************************)
(* Project relations.                                                      *)
(***************************************************************************)
\* project.get('relatedAwards', [{}]): a project without the key yields one
\* award entry without a uuid
ProjectAwardUuids(project) ==
    IF "relatedAwardsAbsent" \in project.quirks THEN <<NULL>> ELSE project.relatedAwards

\* INSERT OR IGNORE INTO OIResearchOutputsToGrants for every pair
ProjectPairs(project) ==
    {[ro_uuid |-> project.relatedResearchOutputs[j], grant_uuid |-> ProjectAwardUuids(project)[i]] :
        i \in 1..Len(ProjectAwardUuids(project)),
        j \in 1..Len(project.relatedResearchOutputs)}

\* one iteration of the loop of fill_db_relations_from_json_projects
ProjectStep(pool, max) ==
    /\ pc = "projects"
    /\ Readable("projects")
    /\ \E project \in NextRecords(files.projects, pool, max) :
          /\ files' = [files EXCEPT !.projects = Record(@, project)]
          /\ pos' = pos + 1
          /\ db' = [db EXCEPT !.OIResearchOutputsToGrants = @ \cup ProjectPairs(project)]
    /\ Uncommitted
    /\ UNCHANGED <<pc, counters, err, run, snapshot, last, call>>

\* conn.commit(); conn.close(); return True
ProjectsFinish ==
    /\ pc = "projects"
    /\ LoopDone("projects")
    /\ disk' = db
    /\ pc' = "external"
    /\ pos' = 0
    /\ UNCHANGED <<db, files, counters, err, run, snapshot, last, call>>

(***************************************************************************)
(* Placeholder members for unknown collaborators, and their renaming.      *)
(***************************************************************************)
ExternalPosition == "External Collaborator"

\* name = f"External Researcher {uuid[:8]}"
PlaceholderName(uuid) ==
    "External Researcher " \o SubSeq(uuid, 1, IF Len(uuid) < 8 THEN Len(uuid) ELSE 8)

\* SELECT DISTINCT c.researcher_uuid ... WHERE m.uuid IS NULL, in the order
\* the collaborator rows were inserted
RECURSIVE MissingUuids(_, _, _)
MissingUuids(collabs, members, found) ==
    IF collabs = <<>> THEN found
    ELSE LET u == Head(collabs).researcher_uuid
         IN MissingUuids(Tail(collabs), members,
                IF HasUuid(members, u) \/ u \in SeqToSet(found)
                THEN found ELSE Append(found, u))

\* the insert loop of add_external_researchers; an IntegrityError of one
\* insert is caught and the loop goes on
RECURSIVE InsertPlaceholders(_, _)
InsertPlaceholders(members, uuids) ==
    IF uuids = <<>> THEN members
    ELSE LET row == [uuid |-> Head(uuids), name |-> PlaceholderName(Head(uuids)),
                     email |-> NULL, education |-> NULL, bio |-> NULL, phone |-> NULL,
                     photo_url |-> NULL, profile_url |-> NULL,
                     position |-> ExternalPosition, first_title |-> NULL,
                     main_research_area |-> NULL]
         IN InsertPlaceholders(
                IF MemberInsertConflicts(members, row) THEN members
                ELSE Append(members, row),
                Tail(uuids))

\* add_external_researchers
AddExternalResearchers ==
    /\ pc = "external"
    /\ LET members == InsertPlaceholders(db.OIMembers,
                          MissingUuids(db.OIResearchOutputsCollaborators, db.OIMembers, <<>>))
       IN /\ db' = [db EXCEPT !.OIMembers = members]
          /\ disk' = [db EXCEPT !.OIMembers = members]
    /\ pc' = "rename"
    /\ UNCHANGED <<files, pos, counters, err, run, snapshot, last, call>>

Present(v) == v # NULL /\ v # ""

\* the uuid -> name assignments one association makes, in order
AssocMappings(assoc) ==
    LET pname == _norm(assoc.personName)
        aname == _norm(assoc.assocName)
        xname == _norm(assoc.externalName)
        xplain == _norm(assoc.externalPlainName)
        ext == IF ~Present(assoc.externalPerson) THEN <<>>
               ELSE IF xname # "" THEN << <<assoc.externalPerson, xname>> >>
               ELSE IF xplain # "" THEN << <<assoc.externalPerson, xplain>> >>
               ELSE <<>>
    IN IF Present(assoc.person) /\ pname # ""
       THEN << <<assoc.person, pname>> >>
       ELSE IF Present(assoc.person) /\ aname # ""
       THEN << <<assoc.person, aname>> >> \o ext
       ELSE ext

\* all assignments of the research-output file, in file order
FileMappings(outputs) ==
    Flatten([k \in 1..Len(outputs) |->
        Flatten([i \in 1..Len(outputs[k].personAssociations) |->
            AssocMappings(outputs[k].personAssociations[i])])])

\* author_mappings[uuid]: the last name assigned to uuid, NULL if none
AuthorName(mappings, uuid) ==
    LET hits == {i \in 1..Len(mappings) : mappings[i][1] = uuid}
    IN IF hits = {} THEN NULL
       ELSE mappings[CHOOSE i \in hits : \A j \in hits : j <= i][2]

\* WHERE position = 'External Collaborator' AND name LIKE 'External Researcher %'
IsPlaceholder(m) ==
    /\ m.position = ExternalPosition
    /\ StartsWith(StrLower(m.name), "external researcher ")

\* update_external_names written with UPDATE OR REPLACE and without the
\* name_exists test: the row that already holds the name is deleted
RECURSIVE RenameLoop_replace(_, _, _)
RenameLoop_replace(members, todo, mappings) ==
    IF todo = <<>> THEN members
    ELSE LET i == Head(todo)
             uuid == members[i].uuid
             new_name == AuthorName(mappings, uuid)
             clash == {j \in 1..Len(members) :
                          members[j].name = new_name /\ members[j].uuid # uuid}
         IN IF new_name = NULL
            THEN RenameLoop_replace(members, Tail(todo), mappings)
            ELSE IF clash = {}
            THEN RenameLoop_replace([members EXCEPT ![i].name = new_name],
                                    Tail(todo), mappings)
            ELSE LET j == CHOOSE j \in clash : TRUE
                     renamed == [members EXCEPT ![i].name = new_name]
                     kept == [k \in 1..(Len(members) - 1) |->
                                 IF k < j THEN renamed[k] ELSE renamed[k + 1]]
                     rest == SelectSeq(Tail(todo), LAMBDA k : k # j)
                     shifted == [k \in 1..Len(rest) |->
                                    IF rest[k] > j THEN rest[k] - 1 ELSE rest[k]]
                 IN RenameLoop_replace(kept, shifted, mappings)

\* the update loop of update_external_names over the rows selected before
\* the loop (by position in the table), each seeing the renames made so far
RECURSIVE RenameLoop(_, _, _)
RenameLoop(members, todo, mappings) ==
    IF todo = <<>> THEN members
    ELSE LET i == Head(todo)
             uuid == members[i].uuid
             new_name == AuthorName(mappings, uuid)
             name_exists == \E j \in 1..Len(members) :
                                members[j].name = new_name /\ members[j].uuid # uuid
         IN RenameLoop(
                IF new_name = NULL \/ name_exists THEN members
                ELSE [members EXCEPT ![i].name = new_name],
                Tail(todo), mappings)

RECURSIVE Indices(_, _, _)
Indices(members, i, acc) ==
    IF i > Len(members) THEN acc
    ELSE Indices(members, i + 1,
                 IF IsPlaceholder(members[i]) THEN Append(acc, i) ELSE acc)

\* update_external_names
UpdateExternalNames ==
    /\ pc = "rename"
    /\ LET members == RenameLoop(db.OIMembers, Indices(db.OIMembers, 1, <<>>),
                                 FileMappings(files.outputs))
       IN /\ db' = [db EXCEPT !.OIMembers = members]
          /\ disk' = [db EXCEPT !.OIMembers = members]
    /\ pc' = "meta"
    /\ UNCHANGED <<files, pos, counters, err, run, snapshot, last, call>>

(***************************************************************************)
(* Aggregation.                                                            *)
(***************************************************************************)
\* author_ro: one row per (member, research output)
AuthorRo(store) ==
    {<<c.researcher_uuid, c.ro_uuid>> : c \in SeqToSet(store.OIResearchOutputsCollaborators)}

\* ro_by_member counting the collaborator rows, one per role
NumRos_rows(store, m) ==
    Cardinality({c \in SeqToSet(store.OIResearchOutputsCollaborators) :
                    c.researcher_uuid = m})

\* ro_by_member
NumRos(store, m) == Cardinality({a \in AuthorRo(store) : a[1] = m})

\* grants_by_member without the join on OIResearchGrants
NumGrants_links(store, m) ==
    Cardinality({rg.grant_uuid : rg \in {rg \in store.OIResearchOutputsToGrants :
        rg.grant_uuid # NULL /\ <<m, rg.ro_uuid>> \in AuthorRo(store)}})

\* grants_by_member: joins OIResearchOutputsToGrants and OIResearchGrants
NumGrants(store, m) ==
    Cardinality({g.uuid : g \in {g \in store.OIResearchGrants :
        \E a \in AuthorRo(store) : \E rg \in store.OIResearchOutputsToGrants :
            a[1] = m /\ rg.ro_uuid = a[2] /\ rg.grant_uuid = g.uuid}})

\* collabs_by_member taking any output with more than one collaborator row
\* as shared, the rows of the member's own roles included
NumCollabs_rows(store, m) ==
    Cardinality({a \in AuthorRo(store) :
        /\ a[1] = m
        /\ Cardinality({x \in SeqToSet(store.OIResearchOutputsCollaborators) :
                           x.ro_uuid = a[2]}) > 1})

\* collabs_by_member
NumCollabs(store, m) ==
    Cardinality({a \in AuthorRo(store) :
        /\ a[1] = m
        /\ \E x \in SeqToSet(store.OIResearchOutputsCollaborators) :
              x.ro_uuid = a[2] /\ x.researcher_uuid # a[1]})

\* INSERT INTO OIMembersMetaInfo SELECT ... FROM OIMembers m ...
\* ON CONFLICT(researcher_uuid) DO UPDATE
MetaRows(store) ==
    {[researcher_uuid |-> m.uuid,
      num_research_outputs |-> NumRos(store, m.uuid),
      num_grants |-> NumGrants(store, m.uuid),
      num_collaborations |-> NumCollabs(store, m.uuid)] : m \in SeqToSet(store.OIMembers)}

\* fill_db_meta_info_from_other_tables
FillMetaInfo ==
    /\ pc = "meta"
    /\ LET rows == MetaRows(db)
           kept == {r \in db.OIMembersMetaInfo :
                       \A n \in rows : n.researcher_uuid # r.researcher_uuid}
       IN /\ db' = [db EXCEPT !.OIMembersMetaInfo = kept \cup rows]
          /\ disk' = [db EXCEPT !.OIMembersMetaInfo = kept \cup rows]
    /\ pc' = "done"
    /\ UNCHANGED <<files, pos, counters, err, run, snapshot, last, call>>

(***************************************************************************)
(* Input records the stages are run on.                                    *)
(***************************************************************************)
\* records in the four input files of one run, all together
MaxRecords == 4

BasePerson ==
    [firstName |-> "Ann", lastName |-> "Lee", uuid |-> NULL, email |-> NULL,
     education |-> NULL, bio |-> NULL, phone |-> NULL, photo_url |-> NULL,
     profile_url |-> NULL, title |-> NULL, position |-> NULL,
     interests |-> <<>>, keywords |-> <<>>]

\* every attribute present, each column with a value of its own
WithAttributes(person, tag) ==
    [person EXCEPT !.email = "email" \o tag, !.education = "education" \o tag,
                   !.bio = "bio" \o tag, !.phone = "phone" \o tag,
                   !.photo_url = "photo" \o tag, !.profile_url = "profile" \o tag,
                   !.title = "Dr", !.position = "Lecturer"]

PersonPool ==
    {[BasePerson EXCEPT !.interests = <<"Climate Change, climate change; Climate  Change">>],
     [WithAttributes(BasePerson, "1") EXCEPT !.uuid = "u1",
         !.keywords = <<"CO2 capture", "co2 Capture">>],
     [WithAttributes(BasePerson, "2") EXCEPT !.lastName = "Ray", !.uuid = "u1",
         !.email = NULL, !.interests = <<"co2 capture / <b>AI</b> and http://x.org">>],
     [BasePerson EXCEPT !.firstName = NULL, !.lastName = " "],
     [BasePerson EXCEPT !.firstName = " Bob ", !.lastName = "Ray", !.uuid = "u2",
         !.keywords = <<"&amp;lt;i&amp;gt;kelp", "12. Deep  sea">>]}

BaseAssoc ==
    [person |-> NULL, personName |-> NULL, assocName |-> NULL,
     externalPerson |-> NULL, externalName |-> NULL, externalPlainName |-> NULL,
     role |-> "Author", quirks |-> {}]

Internal(uuid, name) == [BaseAssoc EXCEPT !.person = uuid, !.personName = name]
External(uuid, name) == [BaseAssoc EXCEPT !.externalPerson = uuid, !.externalName = name]

BaseOutput ==
    [uuid |-> "o1", title |-> "<i>Kelp</i> &amp; reefs",
     organisationalUnits |-> <<TargetOrg>>, managingOrganisationalUnit |-> NULL,
     publisher |-> NULL, portalUrl |-> NULL, abstract |-> NULL,
     totalNumberOfAuthors |-> AbsentInt, totalScopusCitations |-> AbsentInt,
     year |-> AbsentInt, journal |-> NULL, keywordGroups |-> <<>>,
     personAssociations |-> <<>>, quirks |-> {}]

FreeGroup(type_name, kws) ==
    [type_name |-> type_name,
     keywordContainers |-> << [freeKeywords |-> kws, structuredKeyword |-> <<>>] >>]

StructuredGroup(type_name, kws) ==
    [type_name |-> type_name,
     keywordContainers |-> << [freeKeywords |-> <<>>, structuredKeyword |-> kws] >>]

OtherOrg == "0c5a2f5e-0000-4000-8000-000000000001"

OutputPool ==
    {[BaseOutput EXCEPT !.title = "T", !.publisher = " Sea  Press ",
         !.portalUrl = "test.uwa.edu.au/en/publications/o1",
         !.totalNumberOfAuthors = 2, !.totalScopusCitations = 5, !.year = 2020,
         !.journal = "J",
         !.keywordGroups = <<FreeGroup("Keywords", <<"AI", " deep   sea ">>)>>,
         !.personAssociations =
             <<Internal("u1", "Ann Lee"), External("x1234567-a", "Kim Roe")>>],
     [BaseOutput EXCEPT !.title = NULL, !.abstract = "A"],
     [BaseOutput EXCEPT !.organisationalUnits = <<OtherOrg>>,
         !.managingOrganisationalUnit = TargetOrg, !.abstract = "A",
         !.keywordGroups = <<StructuredGroup("SDG", <<"http://sdg.org", "<b>ok</b>">>)>>,
         !.personAssociations =
             <<External("x1234567-b", "Ann Lee"),
               [External("x1234567-a", NULL) EXCEPT !.role = "Editor"],
               [Internal("u9", "Bob Ray") EXCEPT !.role = NULL]>>],
     [BaseOutput EXCEPT !.uuid = "o2", !.organisationalUnits = <<OtherOrg>>,
         !.managingOrganisationalUnit = OtherOrg,
         !.personAssociations = <<External("x7", "Kim Roe")>>],
     [BaseOutput EXCEPT !.uuid = "o2", !.quirks = {"abstractTextEmpty"}],
     [BaseOutput EXCEPT !.uuid = "o2",
         !.personAssociations =
             <<External("x7", "Kim Roe"), [BaseAssoc EXCEPT !.quirks = {"roleTextEmpty"}]>>],
     [BaseOutput EXCEPT !.uuid = "o2", !.organisationalUnits = <<>>,
         !.managingOrganisationalUnit = TargetOrg, !.quirks = {"orgUnitsNull"}],
     [BaseOutput EXCEPT !.uuid = "o3",
         !.personAssociations =
             <<External("x7", "Kim Roe"), [External("x7", NULL) EXCEPT !.role = "Editor"]>>]}

BaseAward ==
    [uuid |-> "g1", title |-> "Grant", school |-> "Oceans", fundings |-> <<>>,
     startDate |-> NULL, endDate |-> NULL,
     organisationalUnits |-> <<TargetOrg>>, managingOrganisationalUnit |-> TargetOrg]

Funding(funder, amount) == [funder |-> funder, awardedAmount |-> amount]

AwardPool ==
    {[BaseAward EXCEPT !.fundings = <<Funding("A", 100), Funding("B", 250)>>,
         !.startDate = "2013-01-01T12:00:00.000+0800", !.endDate = "01/02/2014"],
     [BaseAward EXCEPT !.fundings = <<Funding("A", BadAmount)>>,
         !.organisationalUnits = <<OtherOrg>>, !.managingOrganisationalUnit = OtherOrg],
     [BaseAward EXCEPT !.school = NULL, !.fundings = <<Funding("A", 100)>>],
     [BaseAward EXCEPT !.uuid = "g3", !.title = NULL, !.fundings = <<Funding("A", 100)>>]}

ProjectPool ==
    {[relatedAwards |-> <<"g1", "g2">>, relatedResearchOutputs |-> <<"o1", "o2">>, quirks |-> {}],
     [relatedAwards |-> <<>>, relatedResearchOutputs |-> <<"o1">>,
      quirks |-> {"relatedAwardsAbsent"}]}

\* what the database file may hold before main() starts
PriorStores ==
    {EmptyStore,
     [EmptyStore EXCEPT
        !.OIMembers = << [uuid |-> "u0", name |-> "Old Row", email |-> NULL,
                          education |-> NULL, bio |-> NULL, phone |-> NULL,
                          photo_url |-> NULL, profile_url |-> NULL, position |-> NULL,
                          first_title |-> NULL, main_research_area |-> NULL] >>,
        !.OIExpertise = {[researcher_uuid |-> "u0", field |-> "Old Field"]}]}

(***************************************************************************)
(* The pipeline, run once.                                                 *)
(***************************************************************************)
Init ==
    /\ disk \in PriorStores
    /\ db = EmptyStore
    /\ pc = "schema"
    /\ files = EmptyFiles
    /\ pos = 0
    /\ counters = ZeroCounters
    /\ err = "none"
    /\ run = 1
    /\ snapshot = EmptyStore
    /\ last = NoEnsure
    /\ call = NoCall

Next ==
    \/ CheckAndCreateDb
    \/ InputUnreadable
    \/ PersonStep(PersonPool, MaxRecords)
    \/ PersonsFinish
    \/ OutputStep(OutputPool, MaxRecords)
    \/ OutputsFinish
    \/ AwardStep(AwardPool, MaxRecords)
    \/ AwardsFinish
    \/ ProjectStep(ProjectPool, MaxRecords)
    \/ ProjectsFinish
    \/ AddExternalResearchers
    \/ UpdateExternalNames
    \/ FillMetaInfo

Spec == Init /\ [][Next]_vars

(***************************************************************************)
(* The pipeline run a second time over the same files.  Between the runs   *)
(* the database file may have been replaced by any other store.            *)
(***************************************************************************)
\* records of the pools that a whole run gets through
TwicePersonPool == {p \in PersonPool : p.interests # <<>> \/ p.uuid = "u2"}

TwiceOutputPool ==
    {o \in OutputPool :
        /\ o.quirks = {}
        /\ o.title # NULL
        /\ \A i \in 1..Len(o.personAssociations) : o.personAssociations[i].quirks = {}}

\* main() is started again
Rerun ==
    /\ pc \in {"done", "aborted"}
    /\ run = 1
    /\ run' = 2
    /\ snapshot' = disk
    /\ \E store \in {disk} \cup PriorStores :
          disk' = store /\ db' = store
    /\ pc' = "schema"
    /\ pos' = 0
    /\ err' = "none"
    /\ counters' = ZeroCounters
    /\ last' = NoEnsure
    /\ UNCHANGED <<files, call>>

NextTwice ==
    \/ CheckAndCreateDb
    \/ InputUnreadable
    \/ PersonStep(TwicePersonPool, MaxRecords)
    \/ PersonsFinish
    \/ OutputStep(TwiceOutputPool, MaxRecords)
    \/ OutputsFinish
    \/ AwardStep(AwardPool, MaxRecords)
    \/ AwardsFinish
    \/ ProjectStep(ProjectPool, MaxRecords)
    \/ ProjectsFinish
    \/ AddExternalResearchers
    \/ UpdateExternalNames
    \/ FillMetaInfo
    \/ Rerun

SpecTwice == Init /\ [][NextTwice]_vars

(***************************************************************************)
(* Title-casing applied to one phrase.                                     *)
(***************************************************************************)
MaxTokens == 2
MaxTokLen == 2

TokAlphabet == {"a", "A", "2"}

RECURSIVE StringsUpTo(_)
StringsUpTo(n) ==
    IF n = 0 THEN {""}
    ELSE LET shorter == StringsUpTo(n - 1)
         IN shorter \cup {s \o c : s \in shorter, c \in TokAlphabet}

ExtraTokens ==
    {"the", "THE", "of", "sea", "-", "a-", "a-a", "a2-a", "A-sea",
     "a-an-a", "a2-of-sea"}

Tokens == (StringsUpTo(MaxTokLen) \ {""}) \cup ExtraTokens

ExamplePhrase == "state-of-the-art CO2 capture and the sea"

\* every token between a first and a last one
FramedPhrases ==
    {Join(<<head, t, tail>>, " ") :
        head \in {"of", "A2"}, t \in Tokens, tail \in {"the", "a2-of-sea"}}

TitlePhrases ==
    {Join(ts, " ") : ts \in UNION {[1..n -> Tokens] : n \in 1..MaxTokens}}
    \cup FramedPhrases
    \cup {ExamplePhrase, "", " a  the ", "a-a   THE  2a ", "  "}

InitTitle ==
    /\ call \in {[fn |-> "titlecase_expertise", arg |-> p, ret |-> "", done |-> FALSE] :
                    p \in TitlePhrases}
    /\ db = EmptyStore /\ disk = EmptyStore
    /\ pc = "idle" /\ files = EmptyFiles /\ pos = 0
    /\ counters = ZeroCounters /\ err = "none" /\ run = 1
    /\ snapshot = EmptyStore /\ last = NoEnsure

ApplyTitlecase ==
    /\ call.fn = "titlecase_expertise"
    /\ ~call.done
    /\ call' = [call EXCEPT !.ret = titlecase_expertise(call.arg), !.done = TRUE]
    /\ UNCHANGED <<db, disk, pc, files, pos, counters, err, run, snapshot, last>>

NextTitle == ApplyTitlecase

SpecTitle == InitTitle /\ [][NextTitle]_vars

(***************************************************************************)
(* C7.  The casing rules, written per token from the statement.            *)
(***************************************************************************)
\* lower-cased with the first character upper-cased
Capitalised(w) == LET l == StrLower(w) IN IF l = "" THEN "" ELSE UpperCh(Ch(l, 1)) \o Tail(l)

HasDigit(w) == \E i \in 1..Len(w) : Ch(w, i) \in DigitSet
HasLetter(w) == \E i \in 1..Len(w) : IsAlphaCh(Ch(w, i))

\* all-uppercase alphabetic of length >= 2, or digits and letters together
AcronymCandidate(w) ==
    \/ Len(w) >= 2 /\ \A i \in 1..Len(w) : IsUpperCh(Ch(w, i))
    \/ HasDigit(w) /\ HasLetter(w)

\* the stricter reading: nothing but digits and letters in the mixture
AcronymCandidateStrict(w) ==
    \/ Len(w) >= 2 /\ \A i \in 1..Len(w) : IsUpperCh(Ch(w, i))
    \/ /\ HasDigit(w) /\ HasLetter(w)
       /\ \A i \in 1..Len(w) : IsAlphaCh(Ch(w, i)) \/ Ch(w, i) \in DigitSet

IsSmallWord(w) == StrLower(w) \in _EXPERTISE_SMALL_WORDS

Hyphenated(w) == InStr("-", w) /\ Len(w) > 1

\* a piece (a token, or a segment of a hyphenated token) that sits at an
\* edge or in the interior of what contains it
RulePiece(w, edge) ==
    IF AcronymCandidate(w) THEN w
    ELSE IF ~edge /\ IsSmallWord(w) THEN StrLower(w)
    ELSE Capitalised(w)

\* the statement as amended: the acronym rule applies to hyphen-free
\* tokens and to segments, never to a hyphenated token as a whole
AmendedToken(tok, edge) ==
    IF Hyphenated(tok)
    THEN LET segs == SplitOn(tok, "-", "")
         IN Join([i \in 1..Len(segs) |-> RulePiece(segs[i], i \in {1, Len(segs)})], "-")
    ELSE RulePiece(tok, edge)

\* the statement as written: an acronym candidate is kept verbatim, and a
\* hyphenated token has its first and last segments capitalised
WrittenToken(tok, edge, strict) ==
    IF (IF strict THEN AcronymCandidateStrict(tok) ELSE AcronymCandidate(tok)) THEN tok
    ELSE IF Hyphenated(tok)
    THEN LET segs == SplitOn(tok, "-", "")
         IN Join([i \in 1..Len(segs) |->
                    IF i \in {1, Len(segs)} THEN Capitalised(segs[i])
                    ELSE IF IsSmallWord(segs[i]) THEN StrLower(segs[i])
                    ELSE RulePiece(segs[i], FALSE)], "-")
    ELSE IF ~edge /\ IsSmallWord(tok) THEN StrLower(tok)
    ELSE Capitalised(tok)

AmendedPhrase(p) ==
    LET toks == SplitWs(p)
    IN Join([i \in 1..Len(toks) |-> AmendedToken(toks[i], i \in {1, Len(toks)})], " ")

WrittenPhrase(p, strict) ==
    LET toks == SplitWs(p)
    IN Join([i \in 1..Len(toks) |-> WrittenToken(toks[i], i \in {1, Len(toks)}, strict)], " ")

TitleDone == call.fn = "titlecase_expertise" /\ call.done

\* C7 (as amended): titlecase_expertise keeps a hyphen-free acronym candidate
\* verbatim, lower-cases an interior small word, capitalises every other
\* hyphen-free token, cases a hyphenated token segment by segment by the same
\* rules (acronym-candidate segments verbatim, other first and last segments
\* capitalised, interior small-word segments lower-cased), and joins the
\* tokens by single spaces; the example phrase gives
\* "State-of-the-Art CO2 Capture and the Sea".
C7_TitlecaseRules ==
    TitleDone =>
        /\ call.ret = AmendedPhrase(call.arg)
        /\ call.arg = ExamplePhrase => call.ret = "State-of-the-Art CO2 Capture and the Sea"

\* a hyphenated token with an acronym-candidate segment and an interior small
\* word, between two other tokens, has been cased
C7_Witness ==
    /\ TitleDone
    /\ \E i \in 2..(Len(SplitWs(call.arg)) - 1) :
          LET tok == SplitWs(call.arg)[i]
          IN /\ Hyphenated(tok)
             /\ AcronymCandidate(tok)
             /\ \E k \in 2..(Len(SplitOn(tok, "-", "")) - 1) : IsSmallWord(SplitOn(tok, "-", "")[k])
    /\ call.ret # call.arg

\* C7 as written: every acronym candidate, hyphenated or not, is kept
\* verbatim and the first and last segments of a hyphenated token are
\* capitalised (under either reading of "a mix of digits and letters").
C7_AsWritten ==
    TitleDone =>
        \/ call.ret = WrittenPhrase(call.arg, FALSE)
        \/ call.ret = WrittenPhrase(call.arg, TRUE)

(***************************************************************************)
(* The identity resolver as the persons stage calls it.  `last` holds the  *)
(* latest call: its arguments, the store before it, the branch taken, the  *)
(* value returned or the exception raised, and the call before it.         *)
(***************************************************************************)
\* the store is still as the latest _ensure_member call left it
AfterEnsure ==
    /\ last.hit # "none"
    /\ pc = "persons" \/ (pc = "aborted" /\ last.exc # "none")

RowsNamed(members, n) == {i \in 1..Len(members) : members[i].name = n}
RowsWithUuid(members, u) == {i \in 1..Len(members) : members[i].uuid = u}

\* two calls in succession with the same name and no canonical id
RepeatedWithoutId ==
    /\ AfterEnsure
    /\ last.prev # "none"
    /\ last.args.name = last.prevArgs.name
    /\ last.args.member_uuid = NULL
    /\ last.prevArgs.member_uuid = NULL

\* C2: _ensure_member called twice in succession with the same name and no
\* canonical id returns the same derived id both times, the second call does
\* not raise, and exactly one OIMembers row carries the name afterwards.
C2_RepeatedCallSameId ==
    RepeatedWithoutId =>
        /\ last.exc = "none"
        /\ last.ret = last.prevRet
        /\ last.ret = _deterministic_member_uuid(last.args.name)
        /\ Cardinality(RowsNamed(db.OIMembers, last.args.name)) = 1

\* a canonical id arrives for a name stored under another id
RekeyCase ==
    /\ AfterEnsure
    /\ last.args.member_uuid # NULL
    /\ \E i \in RowsNamed(last.pre.OIMembers, last.args.name) :
          last.pre.OIMembers[i].uuid # last.args.member_uuid

OldUuid ==
    last.pre.OIMembers[CHOOSE i \in 1..Len(last.pre.OIMembers) :
                           last.pre.OIMembers[i].name = last.args.name].uuid

Resolvable(u) == HasUuid(db.OIMembers, u)

\* C3: a canonical id supplied for a name stored under a different id becomes
\* the id of that row, and every OIExpertise, OIResearchOutputsCollaborators
\* and OIMembersMetaInfo row that referenced the old id references the
\* canonical id afterwards: none is lost, none points at an id without Member.
C3_RekeyReferencesFollow ==
    RekeyCase =>
        /\ last.exc = "none"
        /\ \A i \in RowsNamed(db.OIMembers, last.args.name) :
              db.OIMembers[i].uuid = last.args.member_uuid
        /\ \A r \in last.pre.OIExpertise :
              r.researcher_uuid = OldUuid =>
                  [r EXCEPT !.researcher_uuid = last.args.member_uuid] \in db.OIExpertise
        /\ \A r \in db.OIExpertise : Resolvable(r.researcher_uuid)
        /\ \A k \in 1..Len(db.OIResearchOutputsCollaborators) :
              db.OIResearchOutputsCollaborators[k].researcher_uuid # OldUuid
        /\ \A r \in db.OIMembersMetaInfo : r.researcher_uuid # OldUuid

\* the asserted id is stored under another name and the new name is free
RenameCase ==
    /\ AfterEnsure
    /\ last.args.member_uuid # NULL
    /\ HasUuid(last.pre.OIMembers, last.args.member_uuid)
    /\ ~HasName(last.pre.OIMembers, last.args.name)

\* C4: when the asserted id exists under a different name and no Member has
\* the new name, the Member with that id has the new name afterwards and
\* its id is unchanged.
C4_IdHitRenames ==
    RenameCase =>
        /\ last.exc = "none"
        /\ \E i \in RowsWithUuid(db.OIMembers, last.args.member_uuid) :
              db.OIMembers[i].name = last.args.name
        /\ Len(db.OIMembers) = Len(last.pre.OIMembers)

\* the call found an existing Member, by name or by id
HitCase == AfterEnsure /\ last.hit \in {"name", "uuid"}

\* position of the row the call hit, in the store before the call
HitRow ==
    IF last.hit = "name"
    THEN CHOOSE i \in 1..Len(last.pre.OIMembers) :
             last.pre.OIMembers[i].name = last.args.name
    ELSE CHOOSE i \in 1..Len(last.pre.OIMembers) :
             last.pre.OIMembers[i].uuid = last.member_uuid

MergedAttributes(stored, incoming) ==
    /\ db.OIMembers[HitRow].email = Coalesce(incoming.email, stored.email)
    /\ db.OIMembers[HitRow].education = Coalesce(incoming.education, stored.education)
    /\ db.OIMembers[HitRow].bio = Coalesce(incoming.bio, stored.bio)
    /\ db.OIMembers[HitRow].phone = Coalesce(incoming.phone, stored.phone)
    /\ db.OIMembers[HitRow].photo_url = Coalesce(incoming.photo_url, stored.photo_url)
    /\ db.OIMembers[HitRow].profile_url = Coalesce(incoming.profile_url, stored.profile_url)

\* C5: when _ensure_member hits an existing Member, by name or by id, each of
\* email, education, bio, phone, photo_url and profile_url afterwards is the
\* incoming value if that is non-null and the stored value otherwise, each
\* in its own column.
C5_CoalesceMerge ==
    HitCase => MergedAttributes(last.pre.OIMembers[HitRow], last.args)

(***************************************************************************)
(* Members are never removed within a run.                                 *)
(***************************************************************************)
\* every Member of `before` is in `after`, under the same id or the same
\* name, and `after` has at least as many rows
MembersKept(before, after) ==
    /\ Len(after) >= Len(before)
    /\ \A i \in 1..Len(before) :
          \E j \in 1..Len(after) :
              after[j].uuid = before[i].uuid \/ after[j].name = before[i].name

\* C6: after schema creation no step of the run removes a Member: the number
\* of OIMembers rows never decreases and every Member present before a step
\* is present after it, possibly with an upgraded id or a changed name.
C6_NoMemberRemoved ==
    [][pc # "schema" =>
          /\ MembersKept(db.OIMembers, db'.OIMembers)
          /\ MembersKept(disk.OIMembers, disk'.OIMembers)]_vars

\* a placeholder was renamed, and another kept its placeholder name because
\* the name it should get belongs to a Member
C6_Witness ==
    /\ pc = "done"
    /\ \E i \in 1..Len(db.OIMembers) :
          /\ db.OIMembers[i].position = ExternalPosition
          /\ ~IsPlaceholder(db.OIMembers[i])
    /\ \E i, j \in 1..Len(db.OIMembers) :
          /\ IsPlaceholder(db.OIMembers[i])
          /\ AuthorName(FileMappings(files.outputs), db.OIMembers[i].uuid)
                 = db.OIMembers[j].name
    /\ Len(db.OIMembers) >= 3

(***************************************************************************)
(* Taxonomy phrases in the store.                                          *)
(***************************************************************************)
\* what the cleanup and discard rules leave: no tag, no entity, three
\* characters or more, no URL prefix, a word character
PassedCleanup(phrase) ==
    /\ StripTags(phrase) = phrase
    /\ html_unescape(phrase) = phrase
    /\ Len(phrase) >= 3
    /\ ~IsUrlPrefix(phrase)
    /\ ~NoWordChar(phrase)

\* C8: every phrase stored in OIExpertise and in OIResearchOutputTags has
\* passed the cleanup and discard rules of the normaliser: no HTML tags or
\* entities, at least 3 characters, no URL prefix, at least one word character.
C8_StoredPhrasesClean ==
    /\ \A r \in db.OIExpertise : PassedCleanup(r.field)
    /\ \A t \in db.OIResearchOutputTags : PassedCleanup(t.name)

\* the person record the persons loop handled last
LatestPerson == files.persons[pos]

\* the latest record was stored: its _ensure_member call returned
PersonStored ==
    /\ pc = "persons"
    /\ pos > 0
    /\ last.hit # "none"
    /\ last.exc = "none"
    /\ PersonArgs(LatestPerson) = last.args

\* the phrases of a record after cleaning and title-casing, in order
NormalisedPhrases(person) ==
    LET raws == PersonRawPhrases(person)
        cleaned == [i \in 1..Len(raws) |-> clean_expertise(raws[i])]
        kept == SelectSeq(cleaned, LAMBDA c : c # NULL /\ c # "")
    IN [i \in 1..Len(kept) |-> titlecase_expertise(kept[i])]

\* the form of the first phrase with casefold key k
FirstForm(phrases, k) ==
    phrases[CHOOSE i \in 1..Len(phrases) :
                /\ Casefold(phrases[i]) = k
                /\ \A j \in 1..(i - 1) : Casefold(phrases[j]) # k]

OwnedBy(table, owner) == {r \in table : r.researcher_uuid = owner}

ExamplePerson ==
    /\ LatestPerson.interests = <<"Climate Change, climate change; Climate  Change">>
    /\ LatestPerson.keywords = <<>>

\* C9: no two OIExpertise rows of one owner have phrases equal under casefold;
\* the phrases of one person record that are equal under casefold give one
\* row, in the form of the first occurrence, and rows stored before stay as
\* they are.  "Climate Change, climate change; Climate  Change" gives one row.
C9_ExpertiseDedup ==
    /\ \A r1, r2 \in db.OIExpertise :
          (r1.researcher_uuid = r2.researcher_uuid
              /\ Casefold(r1.field) = Casefold(r2.field)) => r1 = r2
    /\ PersonStored =>
          LET phrases == NormalisedPhrases(LatestPerson)
              owner == last.ret
          IN /\ last.pre.OIExpertise \subseteq db.OIExpertise
             /\ \A i \in 1..Len(phrases) :
                   \E r \in OwnedBy(db.OIExpertise, owner) :
                       /\ Casefold(r.field) = Casefold(phrases[i])
                       /\ r \notin last.pre.OIExpertise =>
                              r.field = FirstForm(phrases, Casefold(phrases[i]))
             /\ \A r \in db.OIExpertise \ last.pre.OIExpertise :
                   /\ r.researcher_uuid = owner
                   /\ \E i \in 1..Len(phrases) : r.field = phrases[i]
             /\ ExamplePerson =>
                   OwnedBy(db.OIExpertise, owner)
                       = {[researcher_uuid |-> owner, field |-> "Climate Change"]}

\* a record with two phrases of different form and equal casefold was stored
C9_Witness ==
    /\ PersonStored
    /\ \E i, j \in 1..Len(NormalisedPhrases(LatestPerson)) :
          /\ i < j
          /\ NormalisedPhrases(LatestPerson)[i] # NormalisedPhrases(LatestPerson)[j]
          /\ Casefold(NormalisedPhrases(LatestPerson)[i])
                 = Casefold(NormalisedPhrases(LatestPerson)[j])
    /\ Cardinality(OwnedBy(db.OIExpertise, last.ret)) = 1

(***************************************************************************)
(* Two research-output records with the same id, one after the other.      *)
(***************************************************************************)
\* the record is one the stage ingests: well-formed and of the organisation
Ingested(item) ==
    /\ item.quirks = {}
    /\ filter_by_organization(item, TargetOrg)
    /\ Present(item.uuid)
    /\ \A i \in 1..Len(item.personAssociations) : item.personAssociations[i].quirks = {}

FirstRecord == files.outputs[pos - 1]
SecondRecord == files.outputs[pos]

\* the second of two records with one id has just been handled, and the
\* first was the first of that id and was stored
SameIdTwice ==
    /\ pc = "outputs"
    /\ pos >= 2
    /\ Ingested(FirstRecord) /\ Ingested(SecondRecord)
    /\ FirstRecord.uuid = SecondRecord.uuid
    /\ _title_from_item(FirstRecord) # ""
    /\ \A k \in 1..(pos - 2) : files.outputs[k].uuid # FirstRecord.uuid

\* a text value of a record, NULL when absent or empty
TextOr(new, old) == IF Present(new) THEN new ELSE old

\* an integer value of a record, the stored one when the key is absent
IntOr(new, old) == IF new = AbsentInt \/ new = NoInt THEN old ELSE new

\* C10: after two research-output records with the same id, every field of
\* the OIResearchOutputs row is the second record's value if present and
\* non-null and the first record's value otherwise; {title T, abstract null}
\* then {title null, abstract A} gives {title T, abstract A}.
C10_LastNonNullWins ==
    SameIdTwice =>
        LET first == OutputRow(FirstRecord)
            second == OutputRow(SecondRecord)
        IN \E r \in db.OIResearchOutputs :
              /\ r.uuid = SecondRecord.uuid
              /\ r.name = TextOr(_title_from_item(SecondRecord), first.name)
              /\ r.abstract = TextOr(SecondRecord.abstract, first.abstract)
              /\ r.publisher_name = TextOr(second.publisher_name, first.publisher_name)
              /\ r.journal_name = TextOr(SecondRecord.journal, first.journal_name)
              /\ r.link_to_paper = TextOr(second.link_to_paper, first.link_to_paper)
              /\ r.num_citations = IntOr(SecondRecord.totalScopusCitations, first.num_citations)
              /\ r.num_authors = IntOr(SecondRecord.totalNumberOfAuthors, first.num_authors)
              /\ r.publication_year = IntOr(SecondRecord.year, first.publication_year)

(***************************************************************************)
(* Rebuild from the same inputs.                                           *)
(***************************************************************************)
RunOver == pc \in {"done", "aborted"}

\* C1: the whole pipeline run twice over identical input files leaves an
\* identical store, the same rows with the same ids and field values in
\* every table, whatever the store held before the second run.
C1_RebuildIdempotent ==
    (run = 2 /\ RunOver) => disk = snapshot

\* a second run that went through every stage and left Members, expertise,
\* outputs, tags, collaborators and aggregate rows
C1_Witness ==
    /\ run = 2
    /\ pc = "done"
    /\ disk = snapshot
    /\ Len(disk.OIMembers) >= 3
    /\ disk.OIExpertise # {}
    /\ disk.OIResearchOutputs # {}
    /\ disk.OIResearchOutputTags # {}
    /\ disk.OIResearchOutputsCollaborators # <<>>
    /\ disk.OIMembersMetaInfo # {}
    /\ \E i \in 1..Len(disk.OIMembers) : disk.OIMembers[i].position = ExternalPosition

(***************************************************************************)
(* The organisational filter of the research-output stage.                 *)
(***************************************************************************)
\* the record has an id and a title and belongs to the organisation, by its
\* managing unit or by any entry of its list of units
Qualifies(item, org_uuid) ==
    /\ Present(item.uuid)
    /\ Present(item.title)
    /\ \/ item.managingOrganisationalUnit = org_uuid
       \/ /\ "orgUnitsNull" \notin item.quirks
          /\ \E i \in 1..Len(item.organisationalUnits) :
                item.organisationalUnits[i] = org_uuid

\* a step of the research-output loop
OutputHandled == pc = "outputs" /\ pos' = pos + 1

\* C11: a research-output record is stored in OIResearchOutputs if and only
\* if it has an id and a title and the target organisation is its managing
\* unit or any entry of its organisationalUnits; a record matching neither is
\* counted as skipped and leaves no row in OIResearchOutputs,
\* OIResearchOutputTags or OIResearchOutputsCollaborators.
C11_StoredIffOfOrganisation ==
    [][OutputHandled =>
          LET item == files'.outputs[pos']
          IN IF Qualifies(item, TargetOrg)
             THEN /\ pc' = "outputs"
                  /\ \E r \in db'.OIResearchOutputs :
                        r.uuid = item.uuid /\ r.name = _title_from_item(item)
             ELSE /\ pc' = "outputs"
                  /\ counters'.skipped = counters.skipped + 1
                  /\ db' = db]_vars

(***************************************************************************)
(* The award stage.                                                        *)
(***************************************************************************)
\* the award records read so far that carry the id
AwardsWithId(uuid) ==
    {k \in 1..Len(files.awards) : k <= pos \/ pc # "awards"} \cap
    {k \in 1..Len(files.awards) : files.awards[k].uuid = uuid}

\* C12: the award stage applies the organisational filter of the output
\* stage: an award whose managingOrganisationalUnit and organisationalUnits
\* all differ from the target organisation is skipped and leaves no row in
\* OIResearchGrants or OIResearchGrantsFundingSources.
C12_AwardsFiltered ==
    /\ \A g \in db.OIResearchGrants :
          \E k \in AwardsWithId(g.uuid) :
              filter_by_organization(files.awards[k], TargetOrg)
    /\ \A f \in db.OIResearchGrantsFundingSources :
          \E k \in AwardsWithId(f.grant_uuid) :
              filter_by_organization(files.awards[k], TargetOrg)

LatestAward == files.awards[pos]

\* the latest award record was stored and every funder of its non-empty
\* list has a numeric amount
AwardWithFunders ==
    /\ pc = "awards"
    /\ pos > 0
    /\ Present(LatestAward.uuid) /\ Present(LatestAward.title)
    /\ Present(LatestAward.school)
    /\ LatestAward.fundings # <<>>
    /\ \A i \in 1..Len(LatestAward.fundings) :
          LatestAward.fundings[i].awardedAmount >= 0

\* position of the funder with the largest own amount, the first of them
LargestOwn(fundings) ==
    CHOOSE i \in 1..Len(fundings) :
        /\ \A j \in 1..Len(fundings) : fundings[j].awardedAmount <= fundings[i].awardedAmount
        /\ \A j \in 1..(i - 1) : fundings[j].awardedAmount < fundings[i].awardedAmount

\* C13: for an award with a non-empty funder list the stored
\* top_funding_source_name is the funder whose own awarded amount is the
\* largest, the first-listed one on a tie, and total_funding is that amount;
\* [("A", 100), ("B", 250)] stores top funder "B" with total_funding 250.
C13_TopFunderByAmount ==
    AwardWithFunders =>
        LET top == LatestAward.fundings[LargestOwn(LatestAward.fundings)]
        IN \E g \in db.OIResearchGrants :
              /\ g.uuid = LatestAward.uuid
              /\ g.top_funding_source_name = top.funder
              /\ g.total_funding = top.awardedAmount

\* the latest award record is the first one with its id
FirstOfItsId ==
    \A k \in 1..(pos - 1) : files.awards[k].uuid # LatestAward.uuid

\* C14: for every stored award OIResearchGrantsFundingSources holds one row
\* per distinct funder of the award's fundings, and the amount of each row is
\* that funder's own awardedAmount.
C14_FundingRowPerFunder ==
    (AwardWithFunders /\ FirstOfItsId) =>
        {f \in db.OIResearchGrantsFundingSources : f.grant_uuid = LatestAward.uuid}
            = {[grant_uuid |-> LatestAward.uuid,
                funding_source_name |-> LatestAward.fundings[i].funder,
                amount |-> LatestAward.fundings[i].awardedAmount] :
                   i \in 1..Len(LatestAward.fundings)}

(***************************************************************************)
(* The per-member counts of OIMembersMetaInfo, stated on the tables the    *)
(* aggregation reads.                                                      *)
(***************************************************************************)
AfterMeta == pc = "done"

Collaborators == db.OIResearchOutputsCollaborators

\* the ids found in the ro_uuid column of the collaborator table
OutputIds == {Collaborators[k].ro_uuid : k \in 1..Len(Collaborators)}

\* the member appears on the output, in any role
OnOutput(p, o) ==
    \E k \in 1..Len(Collaborators) :
        Collaborators[k].researcher_uuid = p /\ Collaborators[k].ro_uuid = o

\* the meta rows of a member
MetaOf(p) == {r \in db.OIMembersMetaInfo : r.researcher_uuid = p}

MemberIds == {db.OIMembers[i].uuid : i \in 1..Len(db.OIMembers)}

\* C15: after the aggregation, num_research_outputs of a member is the
\* number of distinct output ids that have a collaborator row for the member
\* (0 when there is none); an output on which the member holds several roles
\* is counted once.
C15_OutputsCountedOnce ==
    AfterMeta =>
        \A p \in MemberIds :
            /\ Cardinality(MetaOf(p)) = 1
            /\ \A r \in MetaOf(p) :
                  r.num_research_outputs = Cardinality({o \in OutputIds : OnOutput(p, o)})

\* a member with two roles on its one output, and a member on no output
C15_Witness ==
    /\ AfterMeta
    /\ \E p \in MemberIds :
          /\ Cardinality({k \in 1..Len(Collaborators) : Collaborators[k].researcher_uuid = p}) = 2
          /\ \E r \in MetaOf(p) : r.num_research_outputs = 1
    /\ \E p \in MemberIds :
          /\ \A o \in OutputIds : ~OnOutput(p, o)
          /\ \E r \in MetaOf(p) : r.num_research_outputs = 0

\* the grant ids linked to an output of the member
LinkedGrants(p) ==
    {rg.grant_uuid : rg \in {rg \in db.OIResearchOutputsToGrants :
        rg.grant_uuid # NULL /\ OnOutput(p, rg.ro_uuid)}}

GrantIds == {g.uuid : g \in db.OIResearchGrants}

\* C16: after the aggregation, num_grants of a member is the number of
\* distinct grant ids linked in OIResearchOutputsToGrants to an output of the
\* member; the collaborator and link tables alone determine it, a row for
\* the grant in OIResearchGrants is not needed.
C16_GrantsFromLinksAlone ==
    AfterMeta =>
        \A p \in MemberIds : \A r \in MetaOf(p) :
            r.num_grants = Cardinality(LinkedGrants(p))

\* C16 as the code has it: only the linked grants that have a row in
\* OIResearchGrants are counted.
C16_GrantsStoredAndLinked ==
    AfterMeta =>
        \A p \in MemberIds :
            /\ MetaOf(p) # {}
            /\ \A r \in MetaOf(p) :
                  r.num_grants = Cardinality(LinkedGrants(p) \cap GrantIds)

\* a member whose outputs are linked to two grants, one of them stored
C16_Witness ==
    /\ AfterMeta
    /\ \E p \in MemberIds : \E r \in MetaOf(p) :
          /\ r.num_grants = 1
          /\ Cardinality(LinkedGrants(p)) = 2
          /\ Cardinality(LinkedGrants(p) \cap GrantIds) = 1

\* somebody else appears on the output
Shared(p, o) ==
    \E k \in 1..Len(Collaborators) :
        Collaborators[k].ro_uuid = o /\ Collaborators[k].researcher_uuid # p

\* C17: after the aggregation, num_collaborations of a member is the number
\* of distinct outputs of the member on which at least one collaborator row
\* carries a different person id: the count of the member's non-solo
\* outputs, never more than its num_research_outputs.
C17_NonSoloOutputs ==
    AfterMeta =>
        \A p \in MemberIds :
            /\ MetaOf(p) # {}
            /\ \A r \in MetaOf(p) :
                  /\ r.num_collaborations =
                         Cardinality({o \in OutputIds : OnOutput(p, o) /\ Shared(p, o)})
                  /\ r.num_collaborations <= r.num_research_outputs

\* a member with a shared output, and a member alone on its output in two
\* roles
C17_Witness ==
    /\ AfterMeta
    /\ \E p \in MemberIds : \E r \in MetaOf(p) :
          r.num_collaborations = 1 /\ r.num_research_outputs = 1
    /\ \E p \in MemberIds : \E r \in MetaOf(p) :
          /\ r.num_collaborations = 0 /\ r.num_research_outputs = 1
          /\ Cardinality({k \in 1..Len(Collaborators) :
                             Collaborators[k].researcher_uuid = p}) = 2

(***************************************************************************)
(* Placeholder members.                                                    *)
(***************************************************************************)
CollaboratorIds == {Collaborators[k].researcher_uuid : k \in 1..Len(Collaborators)}

\* the rows of the member table of the next state that carry the id
MembersAfter(u) == {i \in 1..Len(db'.OIMembers) : db'.OIMembers[i].uuid = u}

\* C18: add_external_researchers leaves every person id of the collaborator
\* table with a member row: each id without one gets exactly one new member
\* with position 'External Collaborator' and a fallback name derived from
\* the id, whatever the unknown ids are (ids with the same first 8
\* characters included), and the ids that had a member get no further row.
C18_EveryCollaboratorGetsMember ==
    [][pc = "external" =>
          /\ \A u \in CollaboratorIds : Cardinality(MembersAfter(u)) = 1
          /\ \A u \in CollaboratorIds \ MemberIds :
                \A i \in MembersAfter(u) :
                    /\ db'.OIMembers[i].position = ExternalPosition
                    /\ db'.OIMembers[i].name = PlaceholderName(u)
          /\ Len(db'.OIMembers) = Len(db.OIMembers) + Cardinality(CollaboratorIds \ MemberIds)
          /\ SubSeq(db'.OIMembers, 1, Len(db.OIMembers)) = db.OIMembers]_vars

(***************************************************************************)
(* Renaming of the placeholders.                                           *)
(***************************************************************************)
\* the real name the research-output file gives the id, NULL if none
RealName(u) == AuthorName(FileMappings(files.outputs), u)

\* the placeholder rows the file has a real name for
Renamable == {i \in 1..Len(db.OIMembers) :
                 IsPlaceholder(db.OIMembers[i]) /\ RealName(db.OIMembers[i].uuid) # NULL}

\* a row other than i holds the name
HeldByOther(members, i, n) ==
    \E j \in 1..Len(members) : j # i /\ members[j].name = n

NamesUnique(members) ==
    \A i, j \in 1..Len(members) : members[i].name = members[j].name => i = j

\* C19: update_external_names, for a placeholder member the file has a real
\* name for: when no other member has that name the placeholder is renamed
\* to it, when another member has it the placeholder is left unchanged; no
\* two members end with the same name, also when two placeholders map to the
\* same real name.  Rows that are not such placeholders are left alone.
C19_RenameKeepsNamesUnique ==
    [][pc = "rename" =>
          /\ Len(db'.OIMembers) = Len(db.OIMembers)
          /\ \A i \in (1..Len(db.OIMembers)) \ Renamable :
                db'.OIMembers[i] = db.OIMembers[i]
          /\ \A i \in Renamable :
                LET n == RealName(db.OIMembers[i].uuid)
                IN /\ \/ db'.OIMembers[i] = [db.OIMembers[i] EXCEPT !.name = n]
                      \/ db'.OIMembers[i] = db.OIMembers[i]
                   /\ ~HeldByOther(db'.OIMembers, i, n) => db'.OIMembers[i].name = n
                   /\ HeldByOther(db.OIMembers, i, n) => db'.OIMembers[i] = db.OIMembers[i]
          /\ NamesUnique(db'.OIMembers)]_vars

\* two placeholders with the same real name: the first one carries it, the
\* second one kept its fallback name
C19_Witness ==
    /\ pc = "meta"
    /\ \E i, j \in 1..Len(db.OIMembers) :
          /\ i # j
          /\ db.OIMembers[i].position = ExternalPosition
          /\ db.OIMembers[i].name = RealName(db.OIMembers[i].uuid)
          /\ IsPlaceholder(db.OIMembers[j])
          /\ RealName(db.OIMembers[j].uuid) = db.OIMembers[i].name

(***************************************************************************)
(* Malformed nested fields.                                                *)
(***************************************************************************)
\* an output record with an empty abstract text list, an empty
\* publicationStatuses list, an association with an empty role text list, or
\* organisationalUnits null
MalformedOutput(item) ==
    \/ item.quirks # {}
    \/ \E i \in 1..Len(item.personAssociations) :
          "roleTextEmpty" \in item.personAssociations[i].quirks

UnparsableDate(val) == Present(val) /\ _parse_iso_date(val) = NULL

\* an award record with an unparsable date or a non-numeric awardedAmount
MalformedAward(item) ==
    \/ UnparsableDate(item.startDate) \/ UnparsableDate(item.endDate)
    \/ \E i \in 1..Len(item.fundings) : item.fundings[i].awardedAmount = BadAmount

AwardHandled == pc = "awards" /\ pos' = pos + 1

\* C20: a single malformed nested field of a record never aborts a stage.
\* For an output of the organisation with an id and a title and an empty
\* abstract text list, an empty publicationStatuses list, an empty role text
\* list or organisationalUnits null, and for an award with an unparsable
\* date or a non-numeric awardedAmount, the stage goes on to the next
\* record, the record is stored with its other fields, and the field
\* concerned is null or zero.
C20_MalformedFieldTolerated ==
    [][/\ OutputHandled =>
             LET item == files'.outputs[pos']
             IN (Qualifies(item, TargetOrg) /\ MalformedOutput(item)) =>
                   /\ pc' = "outputs"
                   /\ \E r \in db'.OIResearchOutputs :
                         r.uuid = item.uuid /\ r.name = _title_from_item(item)
       /\ AwardHandled =>
             LET item == files'.awards[pos']
             IN (MalformedAward(item) /\ Present(item.uuid) /\ Present(item.title)
                     /\ Present(item.school)) =>
                   /\ pc' = "awards"
                   /\ \E g \in db'.OIResearchGrants :
                         /\ g.uuid = item.uuid /\ g.grant_name = item.title
                         /\ (pos = 0 /\ UnparsableDate(item.endDate)) => g.end_date = NULL
                         /\ (pos = 0 /\ item.fundings # <<>>
                                /\ item.fundings[1].awardedAmount = BadAmount)
                               => g.total_funding = 0]_vars

(***************************************************************************)
(* Stage boundaries of the committed database file.                        *)
(***************************************************************************)
Stages == {"persons", "outputs", "awards", "projects", "external", "rename", "meta"}

\* C21: a stage that fails part-way through its records leaves the
\* committed store without any of its writes and with all writes of the
\* stages completed before it: the file changes only when a stage ends, and
\* then to everything the stage wrote.
C21_StageCommitsAsOne ==
    [][(pc \in Stages) =>
          IF pc' = pc \/ pc' = "aborted" THEN disk' = disk ELSE disk' = db']_vars

\* the research-output stage failed after it had written rows: the file
\* holds the members of the persons stage and no research output
C21_Witness ==
    /\ pc = "aborted"
    /\ err = "IndexError"
    /\ db.OIResearchOutputs # {}
    /\ disk.OIResearchOutputs = {}
    /\ disk.OIMembers # <<>>
    /\ disk.OIMembers = db.OIMembers

(***************************************************************************)
(* Repeated records.                                                       *)
(***************************************************************************)
\* the record handled by this step was read before in the same stage
SeenBefore(file, rec) == \E k \in 1..pos : file[k] = rec

\* C22: ingesting a research-output or award record a second time within
\* its stage leaves OIResearchOutputTags, OIResearchOutputsCollaborators and
\* OIResearchGrantsFundingSources as they were after the first time: the
\* repeated keys add no row, change no row and raise no error.
C22_SecondaryTablesIdempotent ==
    [][/\ (OutputHandled /\ SeenBefore(files.outputs, files'.outputs[pos'])) =>
             /\ pc' = "outputs"
             /\ db'.OIResearchOutputTags = db.OIResearchOutputTags
             /\ db'.OIResearchOutputsCollaborators = db.OIResearchOutputsCollaborators
       /\ (AwardHandled /\ SeenBefore(files.awards, files'.awards[pos'])) =>
             /\ pc' = "awards"
             /\ db'.OIResearchGrantsFundingSources = db.OIResearchGrantsFundingSources]_vars

\* an output with tags and collaborators and an award with funders were
\* each read twice, and the stages went on
C22_Witness ==
    /\ pc \in {"projects", "external", "rename", "meta", "done"}
    /\ Len(files.outputs) = 2 /\ files.outputs[1] = files.outputs[2]
    /\ Len(files.awards) = 2 /\ files.awards[1] = files.awards[2]
    /\ Cardinality(db.OIResearchOutputTags) = 2
    /\ Len(db.OIResearchOutputsCollaborators) = 2
    /\ Cardinality(db.OIResearchGrantsFundingSources) = 2

(***************************************************************************)
(* Awards without an id, a title or a school.                              *)
(***************************************************************************)
\* C23: an award record is stored only if it has a non-empty id, a
\* non-empty title and a non-empty managing-school name; a record missing
\* any of the three is counted as skipped, raises no error, and leaves no
\* row in OIResearchGrants or OIResearchGrantsFundingSources.
C23_IncompleteAwardSkipped ==
    [][AwardHandled =>
          LET item == files'.awards[pos']
          IN ~(Present(item.uuid) /\ Present(item.title) /\ Present(item.school)) =>
                /\ pc' = "awards"
                /\ counters'.skipped = counters.skipped + 1
                /\ counters'.updated = counters.updated
                /\ counters'.inserted = counters.inserted
                /\ db' = db]_vars

\* the awards read were one without a title and one without a school, both
\* with a funder: both were counted and the tables are empty
C23_Witness ==
    /\ pc = "awards"
    /\ pos = 2
    /\ \E k \in 1..2 : ~Present(files.awards[k].title) /\ files.awards[k].fundings # <<>>
    /\ \E k \in 1..2 : ~Present(files.awards[k].school) /\ Present(files.awards[k].title)
                          /\ files.awards[k].fundings # <<>>
    /\ counters.skipped = 2
    /\ db.OIResearchGrants = {} /\ db.OIResearchGrantsFundingSources = {}

(***************************************************************************)
(* Output-grant links.                                                     *)
(***************************************************************************)
AfterProjects == pc \in {"external", "rename", "meta", "done"}

\* the pairs the project records list
ListedPairs ==
    UNION {{[ro_uuid |-> files.projects[k].relatedResearchOutputs[j],
             grant_uuid |-> files.projects[k].relatedAwards[i]] :
                i \in 1..Len(files.projects[k].relatedAwards),
                j \in 1..Len(files.projects[k].relatedResearchOutputs)} :
           k \in 1..Len(files.projects)}

\* C24: after fill_db_relations_from_json_projects, OIResearchOutputsToGrants
\* holds exactly the pairs (output id, award id) that some project record
\* lists in relatedResearchOutputs and relatedAwards; a project without
\* relatedAwards or without relatedResearchOutputs contributes no row, and
\* no row has a null output id or a null grant id.
C24_LinksAreListedPairs ==
    AfterProjects =>
        /\ db.OIResearchOutputsToGrants = ListedPairs
        /\ \A rg \in db.OIResearchOutputsToGrants :
              rg.ro_uuid # NULL /\ rg.grant_uuid # NULL

(***************************************************************************)
(* Collaborator rows of the stored outputs.                                *)
(***************************************************************************)
AfterOutputs == pc \in {"awards", "projects", "external", "rename", "meta", "done"}

\* the identity of an association as the claim words it
Identity(assoc) == IF Present(assoc.person) THEN assoc.person ELSE assoc.externalPerson

\* the rows the associations of the stored records call for
CalledFor ==
    UNION {{[ro_uuid |-> files.outputs[k].uuid,
             researcher_uuid |-> Identity(files.outputs[k].personAssociations[i]),
             role |-> files.outputs[k].personAssociations[i].role] :
                i \in {i \in 1..Len(files.outputs[k].personAssociations) :
                          /\ Present(Identity(files.outputs[k].personAssociations[i]))
                          /\ Present(files.outputs[k].personAssociations[i].role)}} :
           k \in {k \in 1..Len(files.outputs) : Qualifies(files.outputs[k], TargetOrg)}}

\* C25: for every stored research output OIResearchOutputsCollaborators
\* holds one row (output, person, role) for every person association of the
\* record that has an identity (person or externalPerson) and a role label,
\* for all of them and not only the first author, whether or not the person
\* is a known member; an association without an identity or without a role
\* produces no row.
C25_RowPerAssociation ==
    AfterOutputs =>
        /\ SeqToSet(disk.OIResearchOutputsCollaborators) = CalledFor
        /\ Len(disk.OIResearchOutputsCollaborators) = Cardinality(CalledFor)

\* a stored output with three associations: two with identity and role,
\* neither a member, and one without a role
C25_Witness ==
    /\ AfterOutputs
    /\ disk.OIMembers = <<>>
    /\ \E k \in 1..Len(files.outputs) :
          /\ Len(files.outputs[k].personAssociations) = 3
          /\ \E i \in 1..3 : files.outputs[k].personAssociations[i].role = NULL
          /\ Cardinality({c \in SeqToSet(disk.OIResearchOutputsCollaborators) :
                             c.ro_uuid = files.outputs[k].uuid}) = 2

(***************************************************************************)
(* Order of the stages.                                                    *)
(***************************************************************************)
StageOrder ==
    <<"schema", "persons", "outputs", "awards", "projects", "external", "rename",
      "meta", "done">>

\* the pairs of a stage and the stage main() calls after it
Successive == {<<StageOrder[i], StageOrder[i + 1]>> : i \in 1..(Len(StageOrder) - 1)}

CrossCase ==
    /\ AfterEnsure
    /\ last.args.member_uuid # NULL
    /\ \E i \in RowsNamed(last.pre.OIMembers, last.args.name) :
          \E j \in RowsWithUuid(last.pre.OIMembers, last.args.member_uuid) : i # j

\* C27: _ensure_member(name, id) called where the name belongs to one member
\* and the asserted id to a different member does not raise, loses no
\* member, and leaves no two members with the same id or the same name.
C27_CrossHitResolved ==
    CrossCase =>
        /\ last.exc = "none"
        /\ Len(db.OIMembers) >= Len(last.pre.OIMembers)
        /\ \A i, j \in 1..Len(db.OIMembers) :
              (db.OIMembers[i].uuid = db.OIMembers[j].uuid
                  \/ db.OIMembers[i].name = db.OIMembers[j].name) => i = j

(***************************************************************************)
(* The counters the output and award stages report.                        *)
(***************************************************************************)
Total(c) == c.inserted + c.updated + c.skipped

\* the step added one to exactly one of inserted/updated and skipped
OneCounted ==
    /\ Total(counters') = Total(counters) + 1
    /\ counters'.skipped \in {counters.skipped, counters.skipped + 1}
    /\ counters'.inserted >= counters.inserted
    /\ counters'.updated >= counters.updated

Complete(item) == Present(item.uuid) /\ Present(item.title) /\ Present(item.school)

\* the records of the stage's file that left no row
LeftNoRow ==
    IF pc = "outputs"
    THEN {k \in 1..Len(files.outputs) : ~Qualifies(files.outputs[k], TargetOrg)}
    ELSE {k \in 1..Len(files.awards) : ~Complete(files.awards[k])}

C29_RenameFrame ==
    [][pc = "rename" =>
          /\ Len(db'.OIMembers) = Len(db.OIMembers)
          /\ \A i \in 1..Len(db.OIMembers) :
                /\ db'.OIMembers[i].uuid = db.OIMembers[i].uuid
                /\ [db'.OIMembers[i] EXCEPT !.name = ""] = [db.OIMembers[i] EXCEPT !.name = ""]
                /\ ~IsPlaceholder(db.OIMembers[i]) =>
                      db'.OIMembers[i].name = db.OIMembers[i].name
          /\ [db' EXCEPT !.OIMembers = <<>>] = [db EXCEPT !.OIMembers = <<>>]]_vars

\* after the renaming: a placeholder carries its real name, beside a member
\* of the persons file and the rows of the other tables
C29_Witness ==
    /\ pc = "meta"
    /\ \E i, j \in 1..Len(db.OIMembers) :
          /\ db.OIMembers[i].position = ExternalPosition
          /\ db.OIMembers[i].name = RealName(db.OIMembers[i].uuid)
          /\ db.OIMembers[j].position # ExternalPosition
    /\ db.OIResearchOutputs # {}
    /\ db.OIResearchOutputsCollaborators # <<>>
    /\ db.OIExpertise # {}

(***************************************************************************)
(* The finished store.                                                     *)
(***************************************************************************)
\* C30: when the pipeline has finished every member, placeholders included,
\* has exactly one OIMembersMetaInfo row, every OIMembersMetaInfo row
\* belongs to a member, and every person id of the collaborator table has a
\* meta row with num_research_outputs >= 1.
C30_MetaCoversEveryone ==
    AfterMeta =>
        /\ \A p \in MemberIds : Cardinality(MetaOf(p)) = 1
        /\ \A r \in db.OIMembersMetaInfo : r.researcher_uuid \in MemberIds
        /\ \A p \in CollaboratorIds :
              \E r \in MetaOf(p) : r.num_research_outputs >= 1

=============================================================================
